---- MODULE Spec2Model ----
(***************************************************************************)
(* Verification model of the limit-order-book reconstruction engine        *)
(* (class AnalysisHighFrequency, cpp/include/AnalysisHighFrequency.hpp).   *)
(*                                                                         *)
(* The engine object is one record, lob; its fields carry the names of the *)
(* C++ members.  Pointers to Level objects are modelled by the price that  *)
(* keys the level in price_levels_, Order* elements by the order records   *)
(* themselves.  Debug-only members (timestamps of orders and deferred      *)
(* entries, printed_anomalies, last_order) and the per-call scratch        *)
(* members signed_volume_, target_id_, effective_price_, new_tick_ are     *)
(* written before they are read in every call and are left out.            *)
(*                                                                         *)
(* The second part models the feature store (class GlobalFeatureStore,     *)
(* cpp/include/features/backend/FeatureStore.hpp) and the threads that     *)
(* share it: the time-series workers, the cross-sectional worker and the   *)
(* I/O worker.  A DayData object is a record [state, ts_progress]; only    *)
(* level 0 is tracked, the one level the workers synchronise on.  The      *)
(* per-worker caches of get_cached_data are not modelled: entries of       *)
(* date_to_daydata_ are never erased, so a cache hit and a map lookup      *)
(* return the same object.  Dates are indices into all_dates, which is     *)
(* sorted and unique, so index order is the key order of the std::map.     *)
(* The workers call the store by older names (is_timeslot_ready,           *)
(* mark_date_complete, mark_ts_core_done); they are modelled by the        *)
(* functions the class defines for the same purpose (cs_check_ready,       *)
(* cs_mark_complete, ts_mark_done).                                        *)
(*                                                                         *)
(* Further parts, each a state machine of its own: the column compressors  *)
(* (cpp/include/codec/compress_algo) and decode_orders, with buffers as    *)
(* byte sequences; the encoding workers and their per-archive locks        *)
(* (cpp/src/worker/encoding_worker.cpp); two engine instances sharing the  *)
(* function-local static of process(); and map_mutex_ of the feature store *)
(* with the workers' caches.  The utility classes have one state machine   *)
(* each: the run-bar sampler (ResampleRunBar.hpp), FastBitmap, BitmapPool  *)
(* and HashMap (define/MemPool.hpp), TaskQueue and PingPongState           *)
(* (cpp/src/codec/parallel).  A state machine leaves the variables of the  *)
(* other parts at their start values.                                      *)
(***************************************************************************)
EXTENDS Integers, Sequences, FiniteSets, TLC

VARIABLES
  lob,                     \* the AnalysisHighFrequency object
  was_in_matching_period,  \* function-local static of process()
  nEvents,                 \* number of process() calls made so far
  exited,                  \* TRUE once clear() has called exit(1)
  date_to_daydata_,        \* GlobalFeatureStore: date -> DayData
  assigned_worker_id,      \* asset -> time-series worker
  ts_pos,                  \* per time-series worker: loop position
  cs,                      \* cross-sectional worker: loop position
  io,                      \* I/O worker: loop position
  cdc,                     \* one column on its way through a compressor
  bin,                     \* one order file on its way through the decoder
  enc,                     \* encoding phase: queue, archive locks, workers
  eng,                     \* a second engine instance and the calls under way
  mx,                      \* map_mutex_ of the store and the threads that take it
  rb,                      \* a ResampleRunBar object and the trade it was last given
  bp,                      \* a BitmapPool and the slots its users hold
  hm,                      \* a pool-backed HashMap and the map it stands for
  fb,                      \* a FastBitmap and the index asked for
  tq,                      \* a TaskQueue, its producer and its consumers
  pp                       \* PingPongState, decompression and encoding workers

lobVars == <<lob, was_in_matching_period, nEvents, exited>>

storeVars == <<date_to_daydata_, assigned_worker_id, ts_pos, cs, io>>

unitVars == <<rb, bp, hm, fb, tq, pp>>

auxVars == <<cdc, bin, enc, eng, mx, unitVars>>

vars == <<lob, was_in_matching_period, nEvents, exited,
          date_to_daydata_, assigned_worker_id, ts_pos, cs, io, cdc, bin, enc, eng, mx,
          rb, bp, hm, fb, tq, pp>>

\* ------------------------------------------------------------------------
\* Bounds of the model
\* ------------------------------------------------------------------------
MaxPrice == 2
MaxId == 2
MaxVolume == 2
MaxEvents == 3
NumCores == 2
NumAssets == 3
NumDates == 2
Capacity == 2
MaxByte == 1
MaxLen == 3
WideValueSize == 9
MaxRecords == 2
EncAssets == 2
MaxOtherEvents == 1
MaxDay == 1
MaxTrades == 3
BitmapWords == 2
MaxBitmapOps == 3

\* BitmapPool: bits per freelist word, words per chunk, chunks, operations
PoolWordBits == 2

ChunkWords == 2

MaxPoolChunks == 2

MaxPoolOps == 10

\* HashMap: keys per bucket beyond the first, values, operations
MaxKeyLaps == 2

MaxHashValue == 2

MaxHashOps == 5

\* Config::MIN_BUCKET_COUNT
MIN_BUCKET_COUNT == 16

\* TaskQueue: consumer threads, tasks pushed
NumConsumers == 2

MaxTasks == 2

\* PingPongState: decompression workers, encoding workers, archives per
\* decompression worker, asset directories per archive
NumDecompressors == 2

NumEncoders == 2

MaxArchives == 2

ArchiveAssets == 1

\* ------------------------------------------------------------------------
\* Program constants
\* ------------------------------------------------------------------------
MAKER == 0
CANCEL == 1
CHANGE == 2
TAKER == 3
BID == 0
ASK == 1

MORNING_CALL_AUCTION_START_HOUR == 9
MORNING_CALL_AUCTION_START_MINUTE == 15
MORNING_CALL_AUCTION_END_MINUTE == 25
MORNING_MATCHING_START_MINUTE == 25
MORNING_MATCHING_END_MINUTE == 30
CLOSING_CALL_AUCTION_START_HOUR == 14
CLOSING_CALL_AUCTION_START_MINUTE == 57
CLOSING_CALL_AUCTION_END_HOUR == 15
CLOSING_CALL_AUCTION_END_MINUTE == 0
DEBUG_BOOK_BY_SECOND == 1

OUT_OF_ORDER == "OUT_OF_ORDER"
CALL_AUCTION == "CALL_AUCTION"
SPECIAL_MAKER == "SPECIAL_MAKER"
ZERO_PRICE_CANCEL == "ZERO_PRICE_CANCEL"

\* ------------------------------------------------------------------------
\* std::unordered_map operations
\* ------------------------------------------------------------------------
EmptyMap == <<>>

MapPut(f, k, v) == [x \in (DOMAIN f) \cup {k} |-> IF x = k THEN v ELSE f[x]]

MapEmplace(f, k, v) == IF k \in DOMAIN f THEN f ELSE MapPut(f, k, v)

MapErase(f, k) == [x \in (DOMAIN f) \ {k} |-> f[x]]

\* ------------------------------------------------------------------------
\* Timestamps
\* ------------------------------------------------------------------------
PackTick(h, m, s, ms) == h * 16777216 + m * 65536 + s * 256 + ms

TickHour(t) == (t \div 16777216) % 256

TickMinute(t) == (t \div 65536) % 256

TickSecond(t) == t \div 256

is_call_auction_period(t) ==
  \/ /\ TickHour(t) = MORNING_CALL_AUCTION_START_HOUR
     /\ TickMinute(t) >= MORNING_CALL_AUCTION_START_MINUTE
     /\ TickMinute(t) < MORNING_CALL_AUCTION_END_MINUTE
  \/ /\ TickHour(t) = CLOSING_CALL_AUCTION_START_HOUR
     /\ TickMinute(t) >= CLOSING_CALL_AUCTION_START_MINUTE
  \/ /\ TickHour(t) = CLOSING_CALL_AUCTION_END_HOUR
     /\ TickMinute(t) = CLOSING_CALL_AUCTION_END_MINUTE

is_call_auction_matching_period(t) ==
  /\ TickHour(t) = MORNING_CALL_AUCTION_START_HOUR
  /\ TickMinute(t) >= MORNING_MATCHING_START_MINUTE
  /\ TickMinute(t) < MORNING_MATCHING_END_MINUTE

\* ------------------------------------------------------------------------
\* Events
\* ------------------------------------------------------------------------
get_signed_volume(o) ==
  CASE o.order_type = MAKER -> IF o.order_dir = BID THEN o.volume ELSE -o.volume
    [] o.order_type = CANCEL -> IF o.order_dir = BID THEN -o.volume ELSE o.volume
    [] o.order_type = TAKER -> IF o.order_dir = BID THEN o.volume ELSE -o.volume
    [] OTHER -> 0

\* get_target_id that gives a taker its own id instead of the counterparty's
get_target_id_OwnSide(o) ==
  CASE o.order_type = MAKER -> IF o.order_dir = BID THEN o.bid_order_id ELSE o.ask_order_id
    [] o.order_type = CANCEL -> IF o.order_dir = BID THEN o.bid_order_id ELSE o.ask_order_id
    [] o.order_type = TAKER -> IF o.order_dir = BID THEN o.bid_order_id ELSE o.ask_order_id
    [] OTHER -> 0

get_target_id(o) ==
  CASE o.order_type = MAKER -> IF o.order_dir = BID THEN o.bid_order_id ELSE o.ask_order_id
    [] o.order_type = CANCEL -> IF o.order_dir = BID THEN o.bid_order_id ELSE o.ask_order_id
    [] o.order_type = TAKER -> IF o.order_dir = BID THEN o.ask_order_id ELSE o.bid_order_id
    [] OTHER -> 0

\* ------------------------------------------------------------------------
\* struct Level
\* ------------------------------------------------------------------------
NewLevel(p) == [price |-> p, net_quantity |-> 0, order_count |-> 0, orders |-> <<>>]

Level_add(level, ord) ==
  [level EXCEPT !.orders = Append(@, ord),
                !.order_count = @ + 1,
                !.net_quantity = @ + ord.qty]

\* Level::remove that forgets to update the cached total
Level_remove_StaleTotal(level, order_index) ==
  LET n == Len(level.orders)
      swapped == IF order_index # n - 1
                 THEN [level.orders EXCEPT ![order_index + 1] = level.orders[n]]
                 ELSE level.orders
  IN [level EXCEPT !.orders = SubSeq(swapped, 1, n - 1),
                   !.order_count = @ - 1]

\* order_index is the 0-based index of the code
Level_remove(level, order_index) ==
  LET n == Len(level.orders)
      removed == level.orders[order_index + 1]
      swapped == IF order_index # n - 1
                 THEN [level.orders EXCEPT ![order_index + 1] = level.orders[n]]
                 ELSE level.orders
  IN [level EXCEPT !.net_quantity = @ - removed.qty,
                   !.orders = SubSeq(swapped, 1, n - 1),
                   !.order_count = @ - 1]

\* ------------------------------------------------------------------------
\* Visible price tracking
\* ------------------------------------------------------------------------
SetMin(S) == CHOOSE x \in S : \A y \in S : x <= y

SetMax(S) == CHOOSE x \in S : \A y \in S : x >= y

refresh_cache_if_dirty(e) ==
  IF ~e.cache_dirty_ THEN e
  ELSE [e EXCEPT !.cached_visible_prices_ = e.visible_price_bitmap_,
                 !.cache_dirty_ = FALSE]

add_visible_price(e, p) ==
  IF p \notin e.visible_price_bitmap_
  THEN [e EXCEPT !.visible_price_bitmap_ = @ \cup {p}, !.cache_dirty_ = TRUE]
  ELSE e

remove_visible_price(e, p) ==
  IF p \in e.visible_price_bitmap_
  THEN [e EXCEPT !.visible_price_bitmap_ = @ \ {p}, !.cache_dirty_ = TRUE]
  ELSE e

\* update_visible_price that never clears a bit
update_visible_price_NeverHides(e, level) ==
  IF level.net_quantity # 0
  THEN add_visible_price(e, level.price)
  ELSE e

update_visible_price(e, level) ==
  IF level.net_quantity # 0
  THEN add_visible_price(e, level.price)
  ELSE remove_visible_price(e, level.price)

next_ask_above(e, from_price) ==
  LET S == {p \in e.visible_price_bitmap_ : p > from_price}
  IN IF S = {} THEN 0 ELSE SetMin(S)

next_bid_below(e, from_price) ==
  LET S == {p \in e.visible_price_bitmap_ : p < from_price}
  IN IF from_price = 0 \/ S = {} THEN 0 ELSE SetMax(S)

min_visible_price(e) ==
  LET c == refresh_cache_if_dirty(e).cached_visible_prices_
  IN IF c = {} THEN 0 ELSE SetMin(c)

max_visible_price(e) ==
  LET c == refresh_cache_if_dirty(e).cached_visible_prices_
  IN IF c = {} THEN 0 ELSE SetMax(c)

\* ------------------------------------------------------------------------
\* Level index
\* ------------------------------------------------------------------------
\* remove_level called with erase_visible = false
remove_level_KeepsVisible(e, level) ==
  [e EXCEPT !.price_levels_ = MapErase(@, level.price)]

remove_level(e, level) ==
  remove_visible_price([e EXCEPT !.price_levels_ = MapErase(@, level.price)],
                       level.price)

\* ------------------------------------------------------------------------
\* Order processing core
\* ------------------------------------------------------------------------
\* update_moved_index that leaves the displaced order's entry alone
update_moved_index_Skipped(lookup, level, order_index) == lookup

\* "Update lookup index for any moved order (swap-and-pop side effect)":
\* level is the level after the removal
update_moved_index(lookup, level, order_index) ==
  IF order_index < Len(level.orders)
  THEN LET moved == level.orders[order_index + 1].id
       IN IF moved \in DOMAIN lookup
          THEN [lookup EXCEPT ![moved].index = order_index]
          ELSE lookup
  ELSE lookup

\* Result: [e |-> engine afterwards, consumed |-> the bool the code returns].
\* The iterator argument of the code is the result of order_lookup_.find on
\* the engine as it is at the call, so it is recomputed here.
apply_volume_change(e, target_id, price, signed_volume) ==
  IF target_id \in DOMAIN e.order_lookup_
  THEN
    LET loc == e.order_lookup_[target_id]
        target_level == e.price_levels_[loc.level]
        order_index == loc.index
        target_order == target_level.orders[order_index + 1]
        new_qty == target_order.qty + signed_volume
    IN IF new_qty = 0
       THEN
         LET lvl1 == Level_remove(target_level, order_index)
             lk1 == MapErase(e.order_lookup_, target_id)
             lk2 == update_moved_index(lk1, lvl1, order_index)
             e1 == [e EXCEPT !.price_levels_[loc.level] = lvl1,
                             !.order_lookup_ = lk2]
         IN [e |-> IF lvl1.order_count = 0
                   THEN remove_level(e1, lvl1)
                   ELSE update_visible_price(e1, lvl1),
             consumed |-> TRUE]
       ELSE
         LET lvl1 == [target_level EXCEPT
                        !.net_quantity = @ + signed_volume,
                        !.orders[order_index + 1].qty = new_qty]
             e1 == [e EXCEPT !.price_levels_[loc.level] = lvl1]
         IN [e |-> update_visible_price(e1, lvl1), consumed |-> FALSE]
  ELSE
    LET new_order == [qty |-> signed_volume, id |-> target_id]
        found_level == IF price \in DOMAIN e.price_levels_
                       THEN e.price_levels_[price]
                       ELSE NewLevel(price)
        new_order_index == Len(found_level.orders)
        lvl1 == Level_add(found_level, new_order)
        e1 == [e EXCEPT !.price_levels_ = MapPut(@, price, lvl1),
                        !.order_lookup_ = MapEmplace(@, target_id,
                                             [level |-> price, index |-> new_order_index])]
    IN [e |-> update_visible_price(e1, lvl1), consumed |-> FALSE]

\* ------------------------------------------------------------------------
\* Top of book
\* ------------------------------------------------------------------------
update_tob(e) ==
  IF ~e.tob_dirty_ THEN e
  ELSE IF e.best_bid_ = 0 /\ e.best_ask_ = 0
       THEN [refresh_cache_if_dirty(e) EXCEPT
               !.best_bid_ = max_visible_price(e),
               !.best_ask_ = min_visible_price(e),
               !.tob_dirty_ = FALSE]
       ELSE [e EXCEPT !.tob_dirty_ = FALSE]

update_tob_after_trade(e, o, was_fully_consumed, trade_price) ==
  LET is_bid == (o.order_dir = BID)
  IN IF was_fully_consumed
     THEN IF is_bid
          THEN [e EXCEPT !.best_ask_ = next_ask_above(e, trade_price), !.tob_dirty_ = FALSE]
          ELSE [e EXCEPT !.best_bid_ = next_bid_below(e, trade_price), !.tob_dirty_ = FALSE]
     ELSE IF is_bid
          THEN [e EXCEPT !.best_ask_ = trade_price, !.tob_dirty_ = FALSE]
          ELSE [e EXCEPT !.best_bid_ = trade_price, !.tob_dirty_ = FALSE]

\* What the public getters best_bid() and best_ask() return
best_bid(e) == update_tob(e).best_bid_

best_ask(e) == update_tob(e).best_ask_

\* ------------------------------------------------------------------------
\* Call-auction flush
\* ------------------------------------------------------------------------
CallAuctionIds(e) ==
  {i \in DOMAIN e.deferred_queue_ : e.deferred_queue_[i].reason = CALL_AUCTION}

\* The orders in which an iteration over the unordered_map can visit ids
IterationOrders(S) ==
  {q \in [1..Cardinality(S) -> S] : \A i, j \in 1..Cardinality(S) : i # j => q[i] # q[j]}

RECURSIVE flush_call_auction_deferred(_, _)
flush_call_auction_deferred(e, visit) ==
  IF visit = <<>> THEN e
  ELSE LET order_id == Head(visit)
           deferred == e.deferred_queue_[order_id]
           e1 == [e EXCEPT !.deferred_queue_ = MapErase(@, order_id)]
           e2 == apply_volume_change(e1, order_id, deferred.reported_price,
                                     deferred.signed_volume).e
       IN flush_call_auction_deferred(e2, Tail(visit))

\* ------------------------------------------------------------------------
\* print_book: its effects on the engine (DEBUG_BOOK_PRINT = 1)
\* ------------------------------------------------------------------------
print_book(e) ==
  LET should_print == (TickSecond(e.curr_tick_) \div DEBUG_BOOK_BY_SECOND)
                      # (TickSecond(e.prev_tick_) \div DEBUG_BOOK_BY_SECOND)
  IN IF should_print THEN refresh_cache_if_dirty(update_tob(e)) ELSE e

\* ------------------------------------------------------------------------
\* update_lob and its deferred path
\* ------------------------------------------------------------------------
\* a DeferredOrder that does not keep the volume it is given
NewDeferred_DropsVolume(vol, price, reason, bid) ==
  [signed_volume |-> 0, reported_price |-> price, reason |-> reason, is_bid |-> bid]

NewDeferred(vol, price, reason, bid) ==
  [signed_volume |-> vol, reported_price |-> price, reason |-> reason, is_bid |-> bid]

\* "Trade completed, now check and clean up self order if exists"
cleanup_self_special(e, o, target_id) ==
  LET self_order_id == IF o.order_dir = BID THEN o.bid_order_id ELSE o.ask_order_id
  IN IF /\ self_order_id # 0
        /\ self_order_id # target_id
        /\ self_order_id \in DOMAIN e.deferred_queue_
        /\ e.deferred_queue_[self_order_id].reason = SPECIAL_MAKER
     THEN [e EXCEPT !.deferred_queue_ = MapErase(@, self_order_id)]
     ELSE e

\* deduct_from_deferred that erases the entry only on an exact offset
deduct_from_deferred_ExactOnly(e, target_id, signed_volume) ==
  LET maker_volume == e.deferred_queue_[target_id].signed_volume
      net_volume == maker_volume + signed_volume
  IN IF net_volume = 0
     THEN [e EXCEPT !.deferred_queue_ = MapErase(@, target_id)]
     ELSE [e EXCEPT !.deferred_queue_[target_id].signed_volume = net_volume]

\* TAKER or CANCEL meeting the queue entry of its target id
deduct_from_deferred(e, target_id, signed_volume) ==
  LET maker_volume == e.deferred_queue_[target_id].signed_volume
      net_volume == maker_volume + signed_volume
      fully_consumed == \/ net_volume = 0
                        \/ (maker_volume > 0 /\ net_volume <= 0)
                        \/ (maker_volume < 0 /\ net_volume >= 0)
  IN IF fully_consumed
     THEN [e EXCEPT !.deferred_queue_ = MapErase(@, target_id)]
     ELSE [e EXCEPT !.deferred_queue_[target_id].signed_volume = net_volume]

\* a queued cancel that forgets it came without a price
cancel_defer_reason_AlwaysOutOfOrder(o) == OUT_OF_ORDER

\* "order.price == 0 ? DeferReason::ZERO_PRICE_CANCEL : DeferReason::OUT_OF_ORDER"
cancel_defer_reason(o) == IF o.price = 0 THEN ZERO_PRICE_CANCEL ELSE OUT_OF_ORDER

update_lob_deferred(e, o, sv, target_id, in_call_auction) ==
  LET has_deferred == target_id \in DOMAIN e.deferred_queue_
      order_found == target_id \in DOMAIN e.order_lookup_
      is_bid == (o.order_dir = BID)
  IN
  IF o.order_type = MAKER
  THEN
    LET in_call_auction_extended ==
          in_call_auction \/ is_call_auction_matching_period(e.curr_tick_)
        \* "Existing deferred record (likely earlier TAKER/CANCEL) - flush it"
        sv1 == IF has_deferred THEN sv + e.deferred_queue_[target_id].signed_volume ELSE sv
        e1 == IF has_deferred
              THEN [e EXCEPT !.deferred_queue_ = MapErase(@, target_id)]
              ELSE e
    IN IF has_deferred /\ sv1 = 0
       THEN e1
       ELSE IF o.price = 0
       THEN [e1 EXCEPT !.deferred_queue_ =
               MapEmplace(@, target_id, NewDeferred(sv1, 0, SPECIAL_MAKER, is_bid))]
       ELSE IF in_call_auction_extended
       THEN [e1 EXCEPT !.deferred_queue_ =
               MapEmplace(@, target_id, NewDeferred(sv1, o.price, CALL_AUCTION, is_bid))]
       ELSE apply_volume_change(e1, target_id, o.price, sv1).e
  ELSE IF o.order_type = TAKER
  THEN
    IF has_deferred
    THEN cleanup_self_special(deduct_from_deferred(e, target_id, sv), o, target_id)
    ELSE IF order_found
    THEN LET effective_price == e.order_lookup_[target_id].level
             r == apply_volume_change(e, target_id, effective_price, sv)
             e1 == update_tob_after_trade(r.e, o, r.consumed, effective_price)
         IN cleanup_self_special(e1, o, target_id)
    ELSE [e EXCEPT !.deferred_queue_ =
            MapEmplace(@, target_id, NewDeferred(sv, o.price, OUT_OF_ORDER, is_bid))]
  ELSE IF o.order_type = CANCEL
  THEN
    IF has_deferred
    THEN deduct_from_deferred(e, target_id, sv)
    ELSE IF order_found
    THEN apply_volume_change(e, target_id, e.order_lookup_[target_id].level, sv).e
    ELSE [e EXCEPT !.deferred_queue_ =
            MapEmplace(@, target_id,
                       NewDeferred(sv, o.price, cancel_defer_reason(o), is_bid))]
  ELSE e

\* fast path taken without looking at the deferred queue
fast_path_taker_cancel_IgnoresQueue(e, o, target_id) ==
  /\ (o.order_type = TAKER \/ o.order_type = CANCEL)
  /\ target_id \in DOMAIN e.order_lookup_

\* "Condition: queue is empty + order found in LOB"
fast_path_taker_cancel(e, o, target_id) ==
  /\ (o.order_type = TAKER \/ o.order_type = CANCEL)
  /\ target_id \in DOMAIN e.order_lookup_
  /\ DOMAIN e.deferred_queue_ = {}

\* the early return that skips only rows without volume
is_ignored_VolumeOnly(sv, target_id) == sv = 0

\* "if (signed_volume_ == 0 || target_id_ == 0) return false"
is_ignored(sv, target_id) == sv = 0 \/ target_id = 0

update_lob(e, o) ==
  LET sv == get_signed_volume(o)
      target_id == get_target_id(o)
      in_call_auction == is_call_auction_period(e.curr_tick_)
      queue_empty == (DOMAIN e.deferred_queue_ = {})
  IN
  IF is_ignored(sv, target_id) THEN e
  ELSE IF fast_path_taker_cancel(e, o, target_id)
  THEN LET effective_price == e.order_lookup_[target_id].level
           r == apply_volume_change(e, target_id, effective_price, sv)
       IN IF o.order_type = TAKER
          THEN update_tob_after_trade(r.e, o, r.consumed, effective_price)
          ELSE r.e
  ELSE IF o.order_type = MAKER /\ ~in_call_auction /\ queue_empty
  THEN IF o.price = 0
       THEN update_lob_deferred(e, o, sv, target_id, in_call_auction)
       ELSE apply_volume_change(e, target_id, o.price, sv).e
  ELSE update_lob_deferred(e, o, sv, target_id, in_call_auction)

\* ------------------------------------------------------------------------
\* process
\* ------------------------------------------------------------------------
OrderTick(o) == PackTick(o.hour, o.minute, o.second, o.millisecond)

\* TRUE iff this call of process() runs flush_call_auction_deferred
flush_triggered(was, o) ==
  /\ was
  /\ ~is_call_auction_matching_period(OrderTick(o))
  /\ ~is_call_auction_period(OrderTick(o))

\* visit: the order in which the flush iterates over the call-auction entries
\* The first part of process(): the engine as update_lob will find it, up to
\* the effects of print_book
process_flush(e, was, o, visit) ==
  LET e0 == [e EXCEPT !.curr_tick_ = OrderTick(o)]
  IN IF flush_triggered(was, o) THEN flush_call_auction_deferred(e0, visit) ELSE e0

\* The second part of process(), after the static flag has been written
process_rest(e1, o) ==
  LET e2 == print_book(e1)
      e3 == [e2 EXCEPT !.prev_tick_ = e2.curr_tick_]
  IN update_lob(e3, o)

process(e, was, o, visit) == process_rest(process_flush(e, was, o, visit), o)

clear(e) ==
  [price_levels_ |-> EmptyMap,
   order_lookup_ |-> EmptyMap,
   deferred_queue_ |-> EmptyMap,
   visible_price_bitmap_ |-> {},
   cached_visible_prices_ |-> {},
   cache_dirty_ |-> FALSE,
   best_bid_ |-> 0,
   best_ask_ |-> 0,
   tob_dirty_ |-> TRUE,
   prev_tick_ |-> 0,
   curr_tick_ |-> 0]

\* ------------------------------------------------------------------------
\* State machine: one engine fed the events of one trading day
\* ------------------------------------------------------------------------
\* Representative times of day <<hour, minute, second>>: collection window,
\* matching window, the 09:30:00 tick that opens the continuous session
Times == {<<9, 20, 0>>, <<9, 26, 0>>, <<9, 30, 0>>}

Ids == 1..MaxId

Volumes == 1..MaxVolume

MakerPrices == 0..MaxPrice

\* a cancel row without price (price 0) and one with a price
CancelPrices == {0, 1}

\* the price of a taker row is only ever copied into a deferred entry
TakerPrices == {1}

MkOrder(t, ty, dir, px, vol, bid, ask) ==
  [hour |-> t[1], minute |-> t[2], second |-> t[3], millisecond |-> 0,
   order_type |-> ty, order_dir |-> dir, price |-> px, volume |-> vol,
   bid_order_id |-> bid, ask_order_id |-> ask]

\* Maker and cancel rows carry only the id of their own side; a taker row
\* carries the counterparty id and its own id (0 or another id)
MakerOrders ==
  {MkOrder(t, MAKER, BID, px, vol, id, 0) :
     t \in Times, px \in MakerPrices, vol \in Volumes, id \in Ids}
  \cup
  {MkOrder(t, MAKER, ASK, px, vol, 0, id) :
     t \in Times, px \in MakerPrices, vol \in Volumes, id \in Ids}

CancelOrders ==
  {MkOrder(t, CANCEL, BID, px, vol, id, 0) :
     t \in Times, px \in CancelPrices, vol \in Volumes, id \in Ids}
  \cup
  {MkOrder(t, CANCEL, ASK, px, vol, 0, id) :
     t \in Times, px \in CancelPrices, vol \in Volumes, id \in Ids}

TakerOrders ==
  {MkOrder(t, TAKER, BID, px, vol, self, id) :
     t \in Times, px \in TakerPrices, vol \in Volumes, id \in Ids, self \in 0..MaxId}
  \cup
  {MkOrder(t, TAKER, ASK, px, vol, id, self) :
     t \in Times, px \in TakerPrices, vol \in Volumes, id \in Ids, self \in 0..MaxId}

\* Rows the engine ignores: zero volume, zero target id, type 2 (change)
IgnoredOrders ==
  {MkOrder(t, MAKER, BID, 1, 0, 1, 0) : t \in Times}
  \cup {MkOrder(t, CANCEL, ASK, 1, 1, 1, 0) : t \in Times}
  \cup {MkOrder(t, TAKER, BID, 1, 1, 1, 0) : t \in Times}
  \cup {MkOrder(t, CHANGE, BID, 1, 1, 1, 1) : t \in Times}

Orders == MakerOrders \cup CancelOrders \cup TakerOrders \cup IgnoredOrders

\* The events that can come next: timestamps do not go backwards
Arrivals == {o \in Orders : OrderTick(o) >= lob.prev_tick_}

\* The iteration orders the 09:30 flush can take when o is processed next
Visits(o) ==
  IterationOrders(IF flush_triggered(was_in_matching_period, o)
                  THEN CallAuctionIds(lob) ELSE {})

\* The engine after it has processed o next
After(o, visit) == process(lob, was_in_matching_period, o, visit)

\* The engine at the moment update_lob consults the queue for o
AtLookup(o, visit) == process_flush(lob, was_in_matching_period, o, visit)

\* The engine as its member initializers leave it
NewEngine ==
  [price_levels_ |-> EmptyMap,
   order_lookup_ |-> EmptyMap,
   deferred_queue_ |-> EmptyMap,
   visible_price_bitmap_ |-> {},
   cached_visible_prices_ |-> {},
   cache_dirty_ |-> FALSE,
   best_bid_ |-> 0,
   best_ask_ |-> 0,
   tob_dirty_ |-> TRUE,
   prev_tick_ |-> 0,
   curr_tick_ |-> 0]

\* ------------------------------------------------------------------------
\* Feature store and its workers
\* ------------------------------------------------------------------------
UNUSED == "UNUSED"
IN_USE == "IN_USE"
CS_DONE == "CS_DONE"
FLUSHING == "FLUSHING"

Cores == 0..(NumCores - 1)

Assets == 0..(NumAssets - 1)

\* indices into all_dates
Dates == 0..(NumDates - 1)

\* "new DayData(); allocate(); state.store(IN_USE)": ts_progress starts at 0
NewDayData == [state |-> IN_USE, ts_progress |-> [core_id \in Cores |-> 0]]

get_or_create_daydata(m, date) ==
  IF date \in DOMAIN m THEN m ELSE MapPut(m, date, NewDayData)

ts_mark_done(m, date, core_id, l0_time_index) ==
  [get_or_create_daydata(m, date) EXCEPT ![date].ts_progress[core_id] = l0_time_index + 1]

\* a completion mark that reaches every tensor of the pool
cs_mark_complete_WholePool(m, date) ==
  [d \in DOMAIN m |-> [m[d] EXCEPT !.state = CS_DONE]]

cs_mark_complete(m, date) ==
  IF date \in DOMAIN m THEN [m EXCEPT ![date].state = CS_DONE] ELSE m

\* a scan that also accepts tensors still in use
cs_done_dates_AnyAllocated(m) == {d \in DOMAIN m : m[d].state \in {IN_USE, CS_DONE}}

\* the tensors the scan of io_flush_once accepts
cs_done_dates(m) == {d \in DOMAIN m : m[d].state = CS_DONE}

\* a scan that keeps the last match instead of stopping at the first
first_in_map_order_Last(S) == SetMax(S)

\* "std::map is ordered by key (date string), so iterate in order" and stop
\* at the first match
first_in_map_order(S) == SetMin(S)

\* my_asset_ids of worker_id, in increasing asset index
my_asset_ids(worker_id) ==
  LET S == {a \in Assets : assigned_worker_id[a] = worker_id}
  IN [k \in 1..Cardinality(S) |-> CHOOSE a \in S : Cardinality({b \in S : b < a}) = k - 1]

\* The parts of the program that a state machine does not run stay as they
\* are before their first call
LobStart ==
  /\ lob = NewEngine
  /\ was_in_matching_period = FALSE
  /\ nEvents = 0
  /\ exited = FALSE

UnitStart ==
  /\ rb = [pc |-> "idle"]
  /\ bp = [pc |-> "idle"]
  /\ hm = [pc |-> "idle"]
  /\ fb = [pc |-> "idle"]
  /\ tq = [pc |-> "idle"]
  /\ pp = [pc |-> "idle"]

AuxStart ==
  /\ cdc = [pc |-> "idle"]
  /\ bin = [pc |-> "idle"]
  /\ enc = [pc |-> "idle"]
  /\ eng = [pc |-> "idle"]
  /\ mx = [pc |-> "idle"]
  /\ UnitStart

\* Start of the three loops: nothing allocated, every worker at its first
\* date
StoreStart ==
  /\ date_to_daydata_ = EmptyMap
  /\ ts_pos = [w \in Cores |-> [date_idx |-> 0, i |-> 0, t |-> 0]]
  /\ cs = [date_idx |-> 0, t |-> 0, core_id |-> 0, pc |-> "check"]
  /\ io = [pc |-> "scan", date_to_flush |-> 0, flush_count |-> 0]

Init ==
  /\ lob = NewEngine
  /\ StoreStart
  /\ assigned_worker_id = [a \in Assets |-> 0]
  /\ was_in_matching_period = FALSE
  /\ nEvents = 0
  /\ exited = FALSE
  /\ AuxStart

\* One call of process() from the loop of process_binary_files
Process ==
  /\ ~exited
  /\ nEvents < MaxEvents
  /\ \E o \in Arrivals :
       /\ \E visit \in Visits(o) : lob' = After(o, visit)
       /\ was_in_matching_period' = is_call_auction_matching_period(OrderTick(o))
  /\ nEvents' = nEvents + 1
  /\ UNCHANGED exited
  /\ UNCHANGED <<storeVars, auxVars>>

\* lob.clear() at the end of the day's file; DEBUG_SINGLE_DAY makes it exit(1)
Clear ==
  /\ ~exited
  /\ lob' = clear(lob)
  /\ exited' = TRUE
  /\ UNCHANGED <<was_in_matching_period, nEvents>>
  /\ UNCHANGED <<storeVars, auxVars>>

Next == Process \/ Clear

Spec == Init /\ [][Next]_vars

\* ------------------------------------------------------------------------
\* State machine of the feature store: NumCores time-series workers, the
\* cross-sectional worker and the I/O worker run concurrently
\* ------------------------------------------------------------------------
StoreInit ==
  /\ lob = NewEngine
  /\ was_in_matching_period = FALSE
  /\ nEvents = 0
  /\ exited = FALSE
  /\ StoreStart
  /\ assigned_worker_id \in [Assets -> Cores]
  /\ AuxStart

\* Time-series worker w stores the features of the asset it is processing
\* for the time index t of the event at hand and marks t done.  Time indices
\* of one asset on one date do not go backwards; not every index need occur.
TsWrite(w) ==
  /\ ts_pos[w].date_idx < NumDates
  /\ ts_pos[w].i < Len(my_asset_ids(w))
  /\ \E t \in ts_pos[w].t..(Capacity - 1) :
       /\ date_to_daydata_' = ts_mark_done(date_to_daydata_, ts_pos[w].date_idx, w, t)
       /\ ts_pos' = [ts_pos EXCEPT ![w].t = t + 1]
  /\ UNCHANGED <<assigned_worker_id, cs, io>>
  /\ UNCHANGED <<lobVars, auxVars>>

\* Worker w is through with the day file of the asset: next asset of my_asset_ids
TsNextAsset(w) ==
  /\ ts_pos[w].date_idx < NumDates
  /\ ts_pos[w].i < Len(my_asset_ids(w))
  /\ ts_pos' = [ts_pos EXCEPT ![w].i = @ + 1, ![w].t = 0]
  /\ UNCHANGED <<date_to_daydata_, assigned_worker_id, cs, io>>
  /\ UNCHANGED <<lobVars, auxVars>>

\* a date loop that moves on although assets of the date are left
TsNextDate_LeavesAssets(w) ==
  /\ ts_pos[w].date_idx < NumDates
  /\ ts_pos' = [ts_pos EXCEPT ![w].date_idx = @ + 1, ![w].i = 0, ![w].t = 0]
  /\ UNCHANGED <<date_to_daydata_, assigned_worker_id, cs, io>>
  /\ UNCHANGED <<lobVars, auxVars>>

\* Worker w has gone through its assets for the date: next date of all_dates
TsNextDate(w) ==
  /\ ts_pos[w].date_idx < NumDates
  /\ ts_pos[w].i = Len(my_asset_ids(w))
  /\ ts_pos' = [ts_pos EXCEPT ![w].date_idx = @ + 1, ![w].i = 0, ![w].t = 0]
  /\ UNCHANGED <<date_to_daydata_, assigned_worker_id, cs, io>>
  /\ UNCHANGED <<lobVars, auxVars>>

\* One iteration of the loop of cs_check_ready: read the counter of one core
CsCheckCore ==
  /\ cs.pc = "check"
  /\ LET m == get_or_create_daydata(date_to_daydata_, cs.date_idx)
     IN /\ date_to_daydata_' = m
        /\ cs' = IF m[cs.date_idx].ts_progress[cs.core_id] <= cs.t
                 THEN [cs EXCEPT !.core_id = 0]
                 ELSE IF cs.core_id + 1 = NumCores
                      THEN [cs EXCEPT !.core_id = 0, !.pc = "compute"]
                      ELSE [cs EXCEPT !.core_id = @ + 1]
  /\ UNCHANGED <<assigned_worker_id, ts_pos, io>>
  /\ UNCHANGED <<lobVars, auxVars>>

\* compute_cs_for_timeslot(date, t) reads and writes the slab of (date, t)
CsCompute ==
  /\ cs.pc = "compute"
  /\ cs' = [cs EXCEPT !.t = @ + 1,
                      !.pc = IF cs.t + 1 = Capacity THEN "mark" ELSE "check"]
  /\ UNCHANGED <<date_to_daydata_, assigned_worker_id, ts_pos, io>>
  /\ UNCHANGED <<lobVars, auxVars>>

\* "Mark this date as complete for tensor pool recycling"
CsMarkComplete ==
  /\ cs.pc = "mark"
  /\ date_to_daydata_' = cs_mark_complete(date_to_daydata_, cs.date_idx)
  /\ cs' = [cs EXCEPT !.date_idx = @ + 1, !.t = 0,
                      !.pc = IF cs.date_idx + 1 = NumDates THEN "done" ELSE "check"]
  /\ UNCHANGED <<assigned_worker_id, ts_pos, io>>
  /\ UNCHANGED <<lobVars, auxVars>>

\* io_flush_once, the scan under map_mutex_
IoScan ==
  /\ io.pc = "scan"
  /\ io.flush_count < NumDates
  /\ io' = IF cs_done_dates(date_to_daydata_) = {}
           THEN io
           ELSE [io EXCEPT !.pc = "mark_flushing",
                           !.date_to_flush =
                              first_in_map_order(cs_done_dates(date_to_daydata_))]
  /\ UNCHANGED <<date_to_daydata_, assigned_worker_id, ts_pos, cs>>
  /\ UNCHANGED <<lobVars, auxVars>>

\* io_flush_once, "Mark FLUSHING"
IoMarkFlushing ==
  /\ io.pc = "mark_flushing"
  /\ date_to_daydata_' = [date_to_daydata_ EXCEPT ![io.date_to_flush].state = FLUSHING]
  /\ io' = [io EXCEPT !.pc = "flush"]
  /\ UNCHANGED <<assigned_worker_id, ts_pos, cs>>
  /\ UNCHANGED <<lobVars, auxVars>>

\* a flush that hands the tensor back as CS_DONE
IoFlushDone_BackToCsDone ==
  /\ io.pc = "flush"
  /\ date_to_daydata_' = [date_to_daydata_ EXCEPT ![io.date_to_flush].state = CS_DONE]
  /\ io' = [io EXCEPT !.pc = "scan", !.flush_count = @ + 1]
  /\ UNCHANGED <<assigned_worker_id, ts_pos, cs>>
  /\ UNCHANGED <<lobVars, auxVars>>

\* io_flush_once, flush_to_disk and "Mark as UNUSED"; io_worker counts it
IoFlushDone ==
  /\ io.pc = "flush"
  /\ date_to_daydata_' = [date_to_daydata_ EXCEPT ![io.date_to_flush].state = UNUSED]
  /\ io' = [io EXCEPT !.pc = "scan", !.flush_count = @ + 1]
  /\ UNCHANGED <<assigned_worker_id, ts_pos, cs>>
  /\ UNCHANGED <<lobVars, auxVars>>

StoreNext ==
  \/ \E w \in Cores : TsWrite(w)
  \/ \E w \in Cores : TsNextAsset(w)
  \/ \E w \in Cores : TsNextDate(w)
  \/ CsCheckCore
  \/ CsCompute
  \/ CsMarkComplete
  \/ IoScan
  \/ IoMarkFlushing
  \/ IoFlushDone

SpecStore == StoreInit /\ [][StoreNext]_vars

\* Every worker is a thread of its own (std::async / std::thread) and the
\* scheduler lets each runnable thread run again: a thread that can take a
\* step of its loop eventually takes one
TsStep(w) == TsWrite(w) \/ TsNextAsset(w) \/ TsNextDate(w)

CsStep == CsCheckCore \/ CsCompute \/ CsMarkComplete

IoStep == IoScan \/ IoMarkFlushing \/ IoFlushDone

SpecStoreFair ==
  /\ StoreInit
  /\ [][StoreNext]_vars
  /\ \A w \in Cores : WF_vars(TsStep(w))
  /\ WF_vars(CsStep)
  /\ WF_vars(IoStep)

\* ------------------------------------------------------------------------
\* Column compressors (cpp/include/codec/compress_algo).  A buffer is a
\* sequence of bytes; position pos of the C++ code is element pos + 1.  A
\* column is a sequence of values, a value the value_size_bytes bytes it
\* occupies in memory.  A uint64_t is kept as its eight bytes, low byte
\* first.  The headers assert on names that are not declared
\* (stored_num_values, bitpack_compressor.hpp:64 and :190), so they compile
\* only with NDEBUG and every assert is an empty statement.
\* ------------------------------------------------------------------------
SizeofSizeT == 8

ModelByte == 0..MaxByte

ValueSizes == {1, 2, WideValueSize}

\* the values of one width the columns are drawn from: a first byte and a
\* fill byte
Values(vs) == {[i \in 1..vs |-> IF i = 1 THEN b ELSE c] : b \in ModelByte, c \in ModelByte}

Columns(vs) ==
  UNION {[1..n -> Values(vs)] : n \in 0..(IF vs = WideValueSize THEN 1 ELSE MaxLen)}

Min2(a, b) == IF a < b THEN a ELSE b

RECURSIVE Pow2(_)
Pow2(k) == IF k = 0 THEN 1 ELSE 2 * Pow2(k - 1)

\* write_value of a size_t: sizeof(T) bytes, low byte first
RECURSIVE write_value(_, _)
write_value(v, k) == IF k = 0 THEN <<>> ELSE <<v % 256>> \o write_value(v \div 256, k - 1)

At(data, pos) == data[pos + 1]

Slice(data, pos, len) == SubSeq(data, pos + 1, pos + len)

\* read_value<size_t>; a value of 2^24 or more stands as 2^24, which is
\* more than the length of any buffer here
read_size_t(data, pos) ==
  LET b == Slice(data, pos, SizeofSizeT)
  IN IF \E i \in 4..SizeofSizeT : b[i] # 0 THEN 16777216
     ELSE b[1] + 256 * b[2] + 65536 * b[3]

RECURSIVE Flat(_)
Flat(x) == IF x = <<>> THEN <<>> ELSE Head(x) \o Flat(Tail(x))

Unflat(bytes, n, vs) == [i \in 1..n |-> SubSeq(bytes, (i - 1) * vs + 1, i * vs)]

\* the output buffer the column compressor hands to decompress:
\* std::vector<T> column_data(result.size()), value-initialised
ZeroColumn(n, vs) == [i \in 1..n |-> [j \in 1..vs |-> 0]]

CRASH == "crash"

\* what a call with undefined behaviour (a read or write outside a buffer)
\* can leave behind: any contents of the output buffer, or no return at all
Undefined(n, vs) == {CRASH} \cup [1..n -> Values(vs)]

\* --- NoCompressor --------------------------------------------------------
NoCompressor_compress(x, vs) ==
  IF Len(x) = 0 THEN <<>>
  ELSE write_value(Len(x), SizeofSizeT) \o write_value(vs, SizeofSizeT) \o Flat(x)

NoCompressor_decompress(data, output, n, vs) ==
  IF Len(data) < SizeofSizeT + SizeofSizeT THEN {output}
  ELSE IF n * vs > Len(data) THEN Undefined(n, vs)
  ELSE {Unflat(Slice(data, 0, n * vs), n, vs)}

\* --- RLECompressor -------------------------------------------------------
\* length of the run that starts at element i (1-based), at most 255
run_length_at(x, i) ==
  LET limit == Min2(255, Len(x) - i + 1)
  IN CHOOSE r \in 1..limit :
       /\ \A j \in 0..(r - 1) : x[i + j] = x[i]
       /\ r = limit \/ x[i + r] # x[i]

RECURSIVE RLE_runs(_, _)
RLE_runs(x, i) ==
  IF i > Len(x) THEN <<>>
  ELSE <<run_length_at(x, i)>> \o x[i] \o RLE_runs(x, i + run_length_at(x, i))

RLECompressor_compress(x, vs) ==
  IF Len(x) = 0 THEN <<>>
  ELSE write_value(Len(x), SizeofSizeT) \o write_value(vs, SizeofSizeT) \o RLE_runs(x, 1)

RECURSIVE RLE_decompress_loop(_, _, _, _, _, _)
RLE_decompress_loop(data, out, pos, output_pos, n, vs) ==
  IF ~(pos < Len(data) /\ output_pos < n) THEN out
  ELSE LET run_length == At(data, pos)
           p == pos + 1
       IN IF p + vs > Len(data) THEN out
          ELSE LET k == Min2(run_length, n - output_pos)
                   value == Slice(data, p, vs)
               IN RLE_decompress_loop(
                    data,
                    [i \in 1..n |-> IF i > output_pos /\ i <= output_pos + k
                                    THEN value ELSE out[i]],
                    p + vs, output_pos + k, n, vs)

RLECompressor_decompress(data, output, n, vs) ==
  IF Len(data) < 2 * SizeofSizeT THEN {output}
  ELSE {RLE_decompress_loop(data, output, 0, 0, n, vs)}

\* --- DictionaryCompressor ------------------------------------------------
\* unique_values after the scan of the first i values, in order of first
\* occurrence
RECURSIVE unique_values(_, _)
unique_values(x, i) ==
  IF i = 0 THEN <<>>
  ELSE LET u == unique_values(x, i - 1)
       IN IF \E k \in 1..Len(u) : u[k] = x[i] THEN u ELSE Append(u, x[i])

\* value_to_index
value_to_index(u, v) == (CHOOSE k \in 1..Len(u) : u[k] = v) - 1

DictionaryCompressor_compress(x, vs) ==
  IF Len(x) = 0 THEN <<>>
  ELSE LET u == unique_values(x, Len(x))
           header == write_value(Len(x), SizeofSizeT) \o write_value(vs, SizeofSizeT)
       IN IF Len(u) > 255 THEN header \o <<0>> \o Flat(x)
          ELSE header \o <<Len(u)>> \o Flat(u)
                 \o [i \in 1..Len(x) |-> value_to_index(u, x[i])]

DictionaryCompressor_decompress(data, output, n, vs) ==
  IF Len(data) < SizeofSizeT + SizeofSizeT + 1 THEN {output}
  ELSE LET num_unique_values == At(data, 0)
           pos == 1
           indices_pos == pos + num_unique_values * vs
       IN IF num_unique_values = 0
          THEN IF pos + n * vs > Len(data) THEN Undefined(n, vs)
               ELSE {Unflat(Slice(data, pos, n * vs), n, vs)}
          ELSE IF indices_pos + n > Len(data) THEN Undefined(n, vs)
          ELSE IF \E i \in 0..(n - 1) : At(data, indices_pos + i) >= num_unique_values
               THEN Undefined(n, vs)
          ELSE {[i \in 1..n |->
                  Slice(data, pos + At(data, indices_pos + i - 1) * vs, vs)]}

\* --- BitUtils, bit-pack compressors --------------------------------------
\* convert_to_uint64 of one value: its first min(value_size, 8) bytes
convert_to_uint64(value, vs) == [j \in 1..8 |-> IF j <= Min2(vs, 8) THEN value[j] ELSE 0]

\* bit b of a uint64_t
BitOf(v, b) == (v[(b \div 8) + 1] \div Pow2(b % 8)) % 2

LessU64(a, b) == \E j \in 1..8 : a[j] < b[j] /\ \A k \in (j + 1)..8 : a[k] = b[k]

bits_needed(max_value) ==
  IF \A b \in 0..63 : BitOf(max_value, b) = 0 THEN 1
  ELSE 1 + SetMax({b \in 0..63 : BitOf(max_value, b) = 1})

\* bit p of the packed stream
PackedBit(values, bits_per_value, p) ==
  IF p < Len(values) * bits_per_value
  THEN BitOf(values[(p \div bits_per_value) + 1], p % bits_per_value)
  ELSE 0

RECURSIVE ByteOfBits(_, _, _, _)
ByteOfBits(values, bits_per_value, p, k) ==
  IF k = 8 THEN 0
  ELSE PackedBit(values, bits_per_value, p + k) * Pow2(k)
         + ByteOfBits(values, bits_per_value, p, k + 1)

pack_bits(values, bits_per_value) ==
  IF bits_per_value = 0 \/ Len(values) = 0 THEN <<>>
  ELSE [j \in 1..((Len(values) * bits_per_value + 7) \div 8) |->
          ByteOfBits(values, bits_per_value, 8 * (j - 1), 0)]

\* bit p of the input of unpack_bits; past the end of the input it reads 0
InputBit(input, p) ==
  IF p \div 8 < Len(input) THEN (At(input, p \div 8) \div Pow2(p % 8)) % 2 ELSE 0

RECURSIVE UnpackedByte(_, _, _, _, _)
UnpackedByte(input, bits_per_value, first, b, k) ==
  IF k = 8 THEN 0
  ELSE (IF b + k < bits_per_value THEN InputBit(input, first + b + k) * Pow2(k) ELSE 0)
         + UnpackedByte(input, bits_per_value, first, b, k + 1)

\* values[0..count) after unpack_bits; the caller's vector starts as zeros
unpack_bits(input, count, bits_per_value) ==
  [i \in 1..count |->
     [j \in 1..8 |-> UnpackedByte(input, bits_per_value, (i - 1) * bits_per_value,
                                  8 * (j - 1), 0)]]

\* 1ULL << bit with bit >= 64 is evaluated
unpack_shift_overflows(input, count, bits_per_value) ==
  \E i \in 0..(count - 1) : \E b \in 64..(bits_per_value - 1) :
     InputBit(input, i * bits_per_value + b) = 1

\* convert_from_uint64 copies value_size bytes out of each 8-byte element
convert_from_uint64(values, n, vs) ==
  IF n > 0 /\ vs > 8 THEN Undefined(n, vs)
  ELSE {[i \in 1..n |-> SubSeq(values[i], 1, vs)]}

BitPackStaticCompressor_compress(x, vs, bit_width_) ==
  IF Len(x) = 0 \/ bit_width_ = 0 THEN <<>>
  ELSE write_value(Len(x), SizeofSizeT) \o write_value(vs, SizeofSizeT) \o <<bit_width_>>
         \o pack_bits([i \in 1..Len(x) |-> convert_to_uint64(x[i], vs)], bit_width_)

BitPackStaticCompressor_decompress(data, output, n, vs) ==
  IF Len(data) < SizeofSizeT + SizeofSizeT + 1 THEN {output}
  ELSE LET stored_bit_width == At(data, 0)
           packed_data == SubSeq(data, 2, Len(data))
       IN IF unpack_shift_overflows(packed_data, n, stored_bit_width)
          THEN Undefined(n, vs)
          ELSE convert_from_uint64(unpack_bits(packed_data, n, stored_bit_width), n, vs)

\* sorted_values[percentile_idx]
calculate_95th_percentile(values) ==
  LET count == Len(values)
      idx == Min2((count * 95) \div 100, count - 1)
      below(v) == Cardinality({i \in 1..count : LessU64(values[i], v)})
      upto(v) == Cardinality({i \in 1..count : ~LessU64(v, values[i])})
  IN IF count = 1 THEN values[1]
     ELSE values[CHOOSE i \in 1..count : below(values[i]) <= idx /\ idx < upto(values[i])]

\* values[i] > max_packed_value, max_packed_value = (1ULL << optimal_bits) - 1
exceeds_packed(v, optimal_bits) == \E b \in optimal_bits..63 : BitOf(v, b) = 1

max_packed_value(optimal_bits) ==
  [j \in 1..8 |-> IF 8 * j <= optimal_bits THEN 255
                  ELSE IF 8 * (j - 1) >= optimal_bits THEN 0
                  ELSE Pow2(optimal_bits - 8 * (j - 1)) - 1]

RECURSIVE overflow_table(_, _, _)
overflow_table(values, optimal_bits, i) ==
  IF i > Len(values) THEN <<>>
  ELSE (IF exceeds_packed(values[i], optimal_bits)
        THEN write_value(i - 1, SizeofSizeT) \o values[i] ELSE <<>>)
         \o overflow_table(values, optimal_bits, i + 1)

BitPackDynamicCompressor_compress(x, vs) ==
  IF Len(x) = 0 THEN <<>>
  ELSE LET values == [i \in 1..Len(x) |-> convert_to_uint64(x[i], vs)]
           optimal_bits == bits_needed(calculate_95th_percentile(values))
           overflow_count == Cardinality({i \in 1..Len(x) : exceeds_packed(values[i], optimal_bits)})
           marked == [i \in 1..Len(x) |->
                        IF exceeds_packed(values[i], optimal_bits)
                        THEN max_packed_value(optimal_bits) ELSE values[i]]
       IN write_value(Len(x), SizeofSizeT) \o write_value(vs, SizeofSizeT)
            \o <<optimal_bits>> \o write_value(overflow_count, SizeofSizeT)
            \o pack_bits(marked, optimal_bits)
            \o overflow_table(values, optimal_bits, 1)

RECURSIVE apply_overflow(_, _, _, _)
apply_overflow(data, values, pos, left) ==
  IF left = 0 THEN values
  ELSE apply_overflow(data,
                      [values EXCEPT ![read_size_t(data, pos) + 1] =
                                       Slice(data, pos + SizeofSizeT, 8)],
                      pos + SizeofSizeT + 8, left - 1)

BitPackDynamicCompressor_decompress(data, output, n, vs) ==
  IF Len(data) < SizeofSizeT + SizeofSizeT + 1 + SizeofSizeT THEN {output}
  ELSE LET optimal_bits == At(data, 0)
           overflow_count == read_size_t(data, 1)
           pos == 1 + SizeofSizeT
           packed_bytes == (n * optimal_bits + 7) \div 8
           table == pos + packed_bytes
           packed_data == Slice(data, pos, packed_bytes)
       IN IF table + overflow_count * (SizeofSizeT + 8) > Len(data)
          THEN Undefined(n, vs)
          ELSE IF \E k \in 0..(overflow_count - 1) :
                    read_size_t(data, table + k * (SizeofSizeT + 8)) >= n
          THEN Undefined(n, vs)
          ELSE IF unpack_shift_overflows(packed_data, n, optimal_bits)
          THEN Undefined(n, vs)
          ELSE convert_from_uint64(
                 apply_overflow(data, unpack_bits(packed_data, n, optimal_bits),
                                table, overflow_count),
                 n, vs)

\* --- AutoSelectCompressor ------------------------------------------------
NONE == "NONE"
RLE == "RLE"
DICTIONARY == "DICTIONARY"
BITPACK_STATIC == "BITPACK_STATIC"
BITPACK_DYNAMIC == "BITPACK_DYNAMIC"
CUSTOM == "CUSTOM"

DictMaxValueSize == 8
DictMaxNumValues == 10000

\* the candidates vector: the compressor tried and what it produced
candidates(x, vs) ==
  <<[algo |-> RLE, data |-> RLECompressor_compress(x, vs)]>>
  \o (IF vs <= DictMaxValueSize /\ Len(x) <= DictMaxNumValues
      THEN <<[algo |-> DICTIONARY, data |-> DictionaryCompressor_compress(x, vs)]>>
      ELSE <<>>)
  \o <<[algo |-> BITPACK_DYNAMIC, data |-> BitPackDynamicCompressor_compress(x, vs)],
       [algo |-> NONE, data |-> NoCompressor_compress(x, vs)]>>

\* best_idx: the first candidate of the smallest size
best_idx(c) ==
  (CHOOSE i \in 1..Len(c) :
     /\ \A k \in 1..Len(c) : Len(c[i].data) <= Len(c[k].data)
     /\ \A k \in 1..(i - 1) : Len(c[k].data) > Len(c[i].data)) - 1

AutoSelectCompressor_compress(x, vs) ==
  IF Len(x) = 0 THEN <<>>
  ELSE LET c == candidates(x, vs)
       IN <<best_idx(c)>> \o c[best_idx(c) + 1].data

\* the compressor named by the switch on algo_idx
algo_of_index(algo_idx) ==
  CASE algo_idx = 0 -> RLE
    [] algo_idx = 1 -> DICTIONARY
    [] algo_idx = 2 -> BITPACK_DYNAMIC
    [] algo_idx = 3 -> NONE
    [] OTHER -> "invalid"

\* decompress of the compressor create_compressor returns for algo
decompress_of(algo, data, output, n, vs) ==
  CASE algo = RLE -> RLECompressor_decompress(data, output, n, vs)
    [] algo = DICTIONARY -> DictionaryCompressor_decompress(data, output, n, vs)
    [] algo = BITPACK_DYNAMIC -> BitPackDynamicCompressor_decompress(data, output, n, vs)
    [] algo = BITPACK_STATIC -> BitPackStaticCompressor_decompress(data, output, n, vs)
    [] algo = NONE -> NoCompressor_decompress(data, output, n, vs)
    [] OTHER -> {output}

AutoSelectCompressor_decompress(data, output, n, vs) ==
  IF data = <<>> THEN {output}
  ELSE decompress_of(algo_of_index(At(data, 0)), SubSeq(data, 2, Len(data)), output, n, vs)

compress_of(algo, x, vs, bit_width) ==
  CASE algo = RLE -> RLECompressor_compress(x, vs)
    [] algo = DICTIONARY -> DictionaryCompressor_compress(x, vs)
    [] algo = BITPACK_DYNAMIC -> BitPackDynamicCompressor_compress(x, vs)
    [] algo = BITPACK_STATIC -> BitPackStaticCompressor_compress(x, vs, bit_width)
    [] algo = CUSTOM -> AutoSelectCompressor_compress(x, vs)
    [] OTHER -> NoCompressor_compress(x, vs)

decompress(algo, data, output, n, vs) ==
  IF algo = CUSTOM THEN AutoSelectCompressor_decompress(data, output, n, vs)
  ELSE decompress_of(algo, data, output, n, vs)

\* --- BinaryDecoder_L2::decode_orders -------------------------------------
\* An order file is the bytes of its count header that are present
\* (header_bytes of sizeof(size_t)), the count the header declares, and the
\* whole Order records that follow; a record is kept as one number.
\* use_delta is ENABLE_DELTA_ENCODING, false, at every call.
decode_orders(file, orders) ==
  IF file.header_bytes < SizeofSizeT THEN [ok |-> FALSE, orders |-> orders]
  ELSE IF Len(file.records) < file.count
  THEN [ok |-> FALSE,
        orders |-> [i \in 1..file.count |->
                      IF i <= Len(file.records) THEN file.records[i] ELSE 0]]
  ELSE [ok |-> TRUE, orders |-> SubSeq(file.records, 1, file.count)]

\* extract_count_from_filename is the count the consumer expects
OrderFiles ==
  {[header_bytes |-> h, count |-> c, records |-> r, expected |-> e] :
     h \in {0, SizeofSizeT - 1, SizeofSizeT},
     c \in 0..MaxRecords,
     r \in UNION {[1..n -> 1..2] : n \in 0..MaxRecords},
     e \in 0..MaxRecords}

\* ------------------------------------------------------------------------
\* State machine of the codec: one column goes through compress and
\* decompress of one compressor, or one order file through decode_orders.
\* Between the two calls the stored bytes may be damaged.
\* ------------------------------------------------------------------------
Algos == {NONE, RLE, DICTIONARY, BITPACK_STATIC, BITPACK_DYNAMIC, CUSTOM}

BitWidths == {1, 16}

ColumnRuns ==
  {[pc |-> "input", algo |-> a, bit_width |-> w, value_size_bytes |-> vs,
    input |-> x, compressed |-> <<>>, num_values |-> Len(x),
    output |-> ZeroColumn(Len(x), vs), damage |-> "none"] :
     a \in Algos, w \in BitWidths \cup {0}, vs \in ValueSizes,
     x \in UNION {Columns(s) : s \in ValueSizes}}

CodecInit ==
  /\ LobStart
  /\ StoreStart
  /\ assigned_worker_id = [a \in Assets |-> 0]
  /\ enc = [pc |-> "idle"]
  /\ eng = [pc |-> "idle"]
  /\ mx = [pc |-> "idle"]
  /\ UnitStart
  /\ \/ /\ cdc \in {r \in ColumnRuns :
                      /\ r.input \in Columns(r.value_size_bytes)
                      /\ (r.algo = BITPACK_STATIC) = (r.bit_width # 0)}
        /\ bin = [pc |-> "idle"]
     \/ /\ cdc = [pc |-> "idle"]
        /\ \E f \in OrderFiles :
             bin = [pc |-> "file", file |-> f, ok |-> FALSE, orders |-> <<>>]

Compress ==
  /\ cdc.pc = "input"
  /\ cdc' = [cdc EXCEPT !.pc = "compressed",
                        !.compressed = compress_of(cdc.algo, cdc.input,
                                                   cdc.value_size_bytes, cdc.bit_width)]
  /\ UNCHANGED <<lobVars, storeVars, bin, enc, eng, mx, unitVars>>

\* the file is cut inside the header
CorruptTruncate ==
  /\ cdc.pc = "compressed" /\ cdc.damage = "none" /\ cdc.compressed # <<>>
  /\ \E k \in {0, 1, SizeofSizeT, 2 * SizeofSizeT - 1} :
       cdc' = [cdc EXCEPT !.damage = "truncated",
                          !.compressed = SubSeq(cdc.compressed, 1, k)]
  /\ UNCHANGED <<lobVars, storeVars, bin, enc, eng, mx, unitVars>>

\* the algorithm index byte names no compressor
CorruptAlgoIndex ==
  /\ cdc.pc = "compressed" /\ cdc.damage = "none" /\ cdc.compressed # <<>>
  /\ cdc.algo = CUSTOM
  /\ \E idx \in {4, 255} :
       cdc' = [cdc EXCEPT !.damage = "algo_index",
                          !.compressed = <<idx>> \o Tail(cdc.compressed)]
  /\ UNCHANGED <<lobVars, storeVars, bin, enc, eng, mx, unitVars>>

\* the consumer expects another number of values than the header declares
CorruptCount ==
  /\ cdc.pc = "compressed" /\ cdc.damage = "none" /\ cdc.compressed # <<>>
  /\ \E n \in 1..MaxLen :
       /\ n # Len(cdc.input)
       /\ cdc' = [cdc EXCEPT !.damage = "count", !.num_values = n,
                             !.output = ZeroColumn(n, cdc.value_size_bytes)]
  /\ UNCHANGED <<lobVars, storeVars, bin, enc, eng, mx, unitVars>>

Decompress ==
  /\ cdc.pc = "compressed"
  /\ \E out \in decompress(cdc.algo, cdc.compressed, cdc.output, cdc.num_values,
                           cdc.value_size_bytes) :
       cdc' = [cdc EXCEPT !.pc = "decompressed", !.output = out]
  /\ UNCHANGED <<lobVars, storeVars, bin, enc, eng, mx, unitVars>>

DecodeOrders ==
  /\ bin.pc = "file"
  /\ LET r == decode_orders(bin.file, bin.orders)
     IN bin' = [bin EXCEPT !.pc = "decoded", !.ok = r.ok, !.orders = r.orders]
  /\ UNCHANGED <<lobVars, storeVars, cdc, enc, eng, mx, unitVars>>

CodecNext ==
  \/ Compress
  \/ CorruptTruncate
  \/ CorruptAlgoIndex
  \/ CorruptCount
  \/ Decompress
  \/ DecodeOrders

SpecCodec == CodecInit /\ [][CodecNext]_vars

\* ------------------------------------------------------------------------
\* Encoding phase (cpp/src/worker/encoding_worker.cpp): the encoding workers
\* take assets from asset_id_queue and, for every date of the asset, extract
\* the asset's files from the archive of the date and encode them.  There
\* is one archive per date (generate_archive_path), so an archive path is
\* kept as its date.  A std::mutex is kept as the worker that holds it, or
\* FREE; the pointer get_or_create_lock returns as the key of the mutex in
\* the locks map.  The critical sections of queue_mutex and map_mutex
\* contain no blocking call and are one step each.
\* ------------------------------------------------------------------------
FREE == -1

SKIP_EXISTING_BINARIES == TRUE

\* the worker slots of the largest machine considered
EncWorkers == 0..(Min2(NumCores, EncAssets) - 1)

\* num_threads = core_count() of the machine the program runs on
EncThreads == 1..NumCores

\* num_workers = min(num_threads, number of assets)
num_workers(num_threads) == Min2(num_threads, EncAssets)

EncAssetIds == 0..(EncAssets - 1)

\* get_or_create_lock_OneMutex hands every archive the same mutex
get_or_create_lock_OneMutex(locks, archive_path) ==
  [locks |-> MapEmplace(locks, 0, FREE), lock |-> 0]

\* RarLockManager::get_or_create_lock: the map after the call and the mutex
\* returned
get_or_create_lock(locks, archive_path) ==
  [locks |-> MapEmplace(locks, archive_path, FREE), lock |-> archive_path]

\* encoded_after_Always sets the flag whatever extract_and_encode returned
encoded_after_Always(encoded, success) == 1

\* date_info.encoded after the call of extract_and_encode returned success
encoded_after(encoded, success) == IF success THEN 1 ELSE encoded

\* what became of a (asset, date) pair
NOT_VISITED == "not_visited"
SKIPPED == "skipped"
NO_ARCHIVE == "no_archive"
SUCCEEDED == "succeeded"
FAILED == "failed"
THREW == "threw"

\* SharedState after scan_all_existing_binaries, the queue as main() builds
\* it, num_workers workers launched and none of them started ("absent": a
\* slot for which this machine launches no worker); taken_by records the
\* workers that popped each asset id
EncStart(existing, archives, num_threads) ==
  [asset_id_queue |-> [i \in 1..EncAssets |-> i - 1],
   locks |-> EmptyMap,
   encoded |-> [a \in EncAssetIds |-> [d \in Dates |-> IF existing[a][d] THEN 1 ELSE 0]],
   existing |-> existing,
   archive_exists |-> archives,
   outcome |-> [a \in EncAssetIds |-> [d \in Dates |-> NOT_VISITED]],
   taken_by |-> [a \in EncAssetIds |-> {}],
   w |-> [k \in EncWorkers |->
            [pc |-> IF k < num_workers(num_threads) THEN "get_asset" ELSE "absent",
             asset_id |-> 0, date_keys |-> {}, date_str |-> 0,
             archive_lock |-> 0]]]

EncInit ==
  /\ LobStart
  /\ StoreStart
  /\ assigned_worker_id = [a \in Assets |-> 0]
  /\ cdc = [pc |-> "idle"]
  /\ bin = [pc |-> "idle"]
  /\ eng = [pc |-> "idle"]
  /\ mx = [pc |-> "idle"]
  /\ UnitStart
  /\ \E existing \in [EncAssetIds -> [Dates -> BOOLEAN]] :
       \E archives \in [Dates -> BOOLEAN] :
         \E num_threads \in EncThreads :
           enc = EncStart(existing, archives, num_threads)

EncUnchanged == UNCHANGED <<lobVars, storeVars, cdc, bin, eng, mx, unitVars>>

\* lines 142-150 and 156-163: pop an asset, or leave the loop when the queue
\* is empty; the dates of the asset are shuffled, so they are taken in any
\* order
EncGetAsset(k) ==
  /\ enc.w[k].pc = "get_asset"
  /\ IF enc.asset_id_queue = <<>>
     THEN enc' = [enc EXCEPT !.w[k].pc = "done"]
     ELSE enc' = [enc EXCEPT
                    !.asset_id_queue = SubSeq(@, 1, Len(@) - 1),
                    !.taken_by[enc.asset_id_queue[Len(enc.asset_id_queue)]] = @ \cup {k},
                    !.w[k] = [@ EXCEPT !.pc = "next_date",
                                       !.asset_id = enc.asset_id_queue[Len(enc.asset_id_queue)],
                                       !.date_keys = Dates]]
  /\ EncUnchanged

\* lines 166-181: the head of the date loop
EncNextDate(k) ==
  /\ enc.w[k].pc = "next_date"
  /\ IF enc.w[k].date_keys = {}
     THEN enc' = [enc EXCEPT !.w[k].pc = "get_asset"]
     ELSE \E d \in enc.w[k].date_keys :
            LET a == enc.w[k].asset_id
                rest == enc.w[k].date_keys \ {d}
            IN IF enc.encoded[a][d] # 0 /\ SKIP_EXISTING_BINARIES
               THEN enc' = [enc EXCEPT !.w[k].date_keys = rest,
                                       !.outcome[a][d] = SKIPPED]
               ELSE IF ~enc.archive_exists[d]
               THEN enc' = [enc EXCEPT !.w[k].date_keys = rest,
                                       !.outcome[a][d] = NO_ARCHIVE]
               ELSE enc' = [enc EXCEPT !.w[k] = [@ EXCEPT !.pc = "get_lock",
                                                          !.date_keys = rest,
                                                          !.date_str = d]]
  /\ EncUnchanged

\* line 55
EncGetLock(k) ==
  /\ enc.w[k].pc = "get_lock"
  /\ LET r == get_or_create_lock(enc.locks, enc.w[k].date_str)
     IN enc' = [enc EXCEPT !.locks = r.locks,
                           !.w[k] = [@ EXCEPT !.pc = "lock", !.archive_lock = r.lock]]
  /\ EncUnchanged

\* line 56: the lock_guard blocks until the mutex is free
EncLock(k) ==
  /\ enc.w[k].pc = "lock"
  /\ enc.locks[enc.w[k].archive_lock] = FREE
  /\ enc' = [enc EXCEPT !.locks[enc.w[k].archive_lock] = k,
                        !.w[k].pc = "extract"]
  /\ EncUnchanged

\* lines 58-91: unrar and the move of the extracted directory.  The command
\* can fail and the directory can be missing (return false); the
\* std::filesystem calls throw on error, and nothing catches in the worker:
\* the exception ends encoding_worker and is stored in the future of
\* std::async.  The lock_guard releases the mutex on every way out.
EncExtract(k) ==
  /\ enc.w[k].pc = "extract"
  /\ LET a == enc.w[k].asset_id
         d == enc.w[k].date_str
         l == enc.w[k].archive_lock
     IN \/ enc' = [enc EXCEPT !.w[k].pc = "encode"]
        \/ enc' = [enc EXCEPT !.locks[l] = FREE,
                              !.encoded[a][d] = encoded_after(@, FALSE),
                              !.outcome[a][d] = FAILED,
                              !.w[k].pc = "next_date"]
        \/ enc' = [enc EXCEPT !.locks[l] = FREE,
                              !.outcome[a][d] = THREW,
                              !.w[k].pc = "dead"]
  /\ EncUnchanged

\* lines 93-118 and 186-194: process_stock_data and the scan for the
\* binaries, then the flag
EncEncode(k) ==
  /\ enc.w[k].pc = "encode"
  /\ LET a == enc.w[k].asset_id
         d == enc.w[k].date_str
         l == enc.w[k].archive_lock
     IN \E success \in BOOLEAN :
          enc' = [enc EXCEPT !.locks[l] = FREE,
                             !.encoded[a][d] = encoded_after(@, success),
                             !.outcome[a][d] = IF success THEN SUCCEEDED ELSE FAILED,
                             !.w[k].pc = "next_date"]
  /\ EncUnchanged

EncNext ==
  \/ \E k \in EncWorkers : EncGetAsset(k)
  \/ \E k \in EncWorkers : EncNextDate(k)
  \/ \E k \in EncWorkers : EncGetLock(k)
  \/ \E k \in EncWorkers : EncLock(k)
  \/ \E k \in EncWorkers : EncExtract(k)
  \/ \E k \in EncWorkers : EncEncode(k)

SpecEnc == EncInit /\ [][EncNext]_vars

\* ------------------------------------------------------------------------
\* State machine of two engine instances: lob with its call counter nEvents
\* is the engine of one instrument, eng.other the engine of another one that
\* a second analysis worker feeds at the same time.  The flag
\* was_in_matching_period is a function-local static of process(): one
\* object for all instances and threads, read at line 336 and written at
\* line 342 without synchronization.  A call of process() is therefore two
\* steps, up to the read and from the write on; everything else it touches
\* belongs to its own instance.  eng.alone is the first engine fed the same
\* rows with a flag nobody else writes.
\* ------------------------------------------------------------------------
\* maker rows of one price and volume at the three times of day
EngineOrders ==
  {MkOrder(t, MAKER, BID, 1, 1, id, 0) : t \in Times, id \in Ids}

\* rows that can come next for engine e: timestamps do not go backwards
EngineArrivals(e) == {o \in EngineOrders : OrderTick(o) >= e.prev_tick_}

\* the iteration orders of the flush of engine e when o is processed next
\* under flag was
FlushVisits(e, was, o) ==
  IterationOrders(IF flush_triggered(was, o) THEN CallAuctionIds(e) ELSE {})

EnginesInit ==
  /\ LobStart
  /\ StoreStart
  /\ assigned_worker_id = [a \in Assets |-> 0]
  /\ cdc = [pc |-> "idle"]
  /\ bin = [pc |-> "idle"]
  /\ enc = [pc |-> "idle"]
  /\ mx = [pc |-> "idle"]
  /\ UnitStart
  /\ eng = [pc |-> "run", call |-> <<>>, other_call |-> <<>>,
            other |-> NewEngine, n_other |-> 0,
            alone |-> NewEngine, alone_was |-> FALSE]

EnginesUnchanged == UNCHANGED <<exited, storeVars, cdc, bin, enc, mx, unitVars>>

\* process() of the first engine, lines 326-340: the tick, the read of the
\* flag and the flush it decides
ProcessBegin ==
  /\ eng.call = <<>>
  /\ nEvents < MaxEvents
  /\ \E o \in EngineArrivals(lob) :
       \E visit \in FlushVisits(lob, was_in_matching_period, o) :
         \E visit_alone \in FlushVisits(eng.alone, eng.alone_was, o) :
           /\ Len(visit) = Len(visit_alone) => visit = visit_alone
           /\ lob' = process_flush(lob, was_in_matching_period, o, visit)
           /\ eng' = [eng EXCEPT
                        !.call = <<o>>,
                        !.alone = process(eng.alone, eng.alone_was, o, visit_alone),
                        !.alone_was = is_call_auction_matching_period(OrderTick(o))]
  /\ UNCHANGED <<was_in_matching_period, nEvents>>
  /\ EnginesUnchanged

\* process() of the first engine, lines 342-353: the write of the flag and
\* update_lob
ProcessEnd ==
  /\ eng.call # <<>>
  /\ was_in_matching_period' = is_call_auction_matching_period(lob.curr_tick_)
  /\ lob' = process_rest(lob, eng.call[1])
  /\ nEvents' = nEvents + 1
  /\ eng' = [eng EXCEPT !.call = <<>>]
  /\ EnginesUnchanged

\* the same two steps of a call of process() on the other engine
OtherProcessBegin ==
  /\ eng.other_call = <<>>
  /\ eng.n_other < MaxOtherEvents
  /\ \E o \in EngineArrivals(eng.other) :
       \E visit \in FlushVisits(eng.other, was_in_matching_period, o) :
         eng' = [eng EXCEPT
                   !.other_call = <<o>>,
                   !.other = process_flush(eng.other, was_in_matching_period, o, visit)]
  /\ UNCHANGED <<lob, was_in_matching_period, nEvents>>
  /\ EnginesUnchanged

OtherProcessEnd ==
  /\ eng.other_call # <<>>
  /\ was_in_matching_period' = is_call_auction_matching_period(eng.other.curr_tick_)
  /\ eng' = [eng EXCEPT !.other_call = <<>>,
                        !.other = process_rest(eng.other, eng.other_call[1]),
                        !.n_other = @ + 1]
  /\ UNCHANGED <<lob, nEvents>>
  /\ EnginesUnchanged

EnginesNext ==
  \/ ProcessBegin
  \/ ProcessEnd
  \/ OtherProcessBegin
  \/ OtherProcessEnd

SpecEngines == EnginesInit /\ [][EnginesNext]_vars

\* ------------------------------------------------------------------------
\* State machine of the store's lock: the time-series workers call
\* ts_mark_done, the cross-sectional worker cs_check_ready and
\* cs_mark_complete.  get_cached_data answers from the caller's cache
\* without a lock when the cached date is the one asked for, and goes through
\* get_or_create_daydata, under map_mutex_, otherwise.  A call that takes the
\* lock is two steps: the acquisition, which waits while another thread holds
\* the mutex, and the rest of the call.  mx.acquired records the threads that
\* have locked map_mutex_; a cache holds the date it was last loaded with.
\* ------------------------------------------------------------------------
\* "int worker_id = -1": the caller is the cross-sectional worker
CS_WORKER == -1

\* cs_check_ready, the loop over the cores
all_cores_past(m, date, l0_time_index) ==
  \A core_id \in Cores : m[date].ts_progress[core_id] > l0_time_index

\* the cross-sectional worker after is_timeslot_ready answered for (date, t):
\* compute and go on, or sleep and poll again
after_check(c, ready) ==
  IF ~ready THEN c
  ELSE [c EXCEPT !.t = @ + 1,
                 !.pc = IF c.t + 1 = Capacity THEN "mark" ELSE "check"]

MutexInit ==
  /\ LobStart
  /\ date_to_daydata_ = EmptyMap
  /\ ts_pos = [w \in Cores |-> [date_idx |-> 0, i |-> 0, t |-> 0]]
  /\ cs = [date_idx |-> 0, t |-> 0, core_id |-> 0, pc |-> "check"]
  /\ io = [pc |-> "scan", date_to_flush |-> 0, flush_count |-> 0]
  /\ assigned_worker_id = [a \in Assets |-> 0]
  /\ cdc = [pc |-> "idle"]
  /\ bin = [pc |-> "idle"]
  /\ enc = [pc |-> "idle"]
  /\ eng = [pc |-> "idle"]
  /\ UnitStart
  /\ mx = [pc |-> "run",
           map_mutex_ |-> {},
           ts_cache_date_ |-> [w \in Cores |-> {}],
           cs_cache_date_ |-> {},
           ts |-> [w \in Cores |-> [pc |-> "call", date_idx |-> 0]],
           cs |-> [pc |-> "check", date_idx |-> 0, t |-> 0],
           acquired |-> {}]

MutexUnchanged ==
  UNCHANGED <<lobVars, assigned_worker_id, ts_pos, cs, io, cdc, bin, enc, eng, unitVars>>

\* ts_mark_done, cache hit: no lock
MxTsMarkDone(w) ==
  /\ mx.ts[w].pc = "call"
  /\ mx.ts[w].date_idx < NumDates
  /\ mx.ts_cache_date_[w] = {mx.ts[w].date_idx}
  /\ \E t \in 0..(Capacity - 1) :
       date_to_daydata_' = ts_mark_done(date_to_daydata_, mx.ts[w].date_idx, w, t)
  /\ UNCHANGED mx
  /\ MutexUnchanged

\* ts_mark_done, cache miss: lock_guard of get_or_create_daydata
MxTsLock(w) ==
  /\ mx.ts[w].pc = "call"
  /\ mx.ts[w].date_idx < NumDates
  /\ mx.ts_cache_date_[w] # {mx.ts[w].date_idx}
  /\ mx.map_mutex_ = {}
  /\ mx' = [mx EXCEPT !.map_mutex_ = {w},
                      !.ts[w].pc = "locked",
                      !.acquired = @ \cup {w}]
  /\ UNCHANGED date_to_daydata_
  /\ MutexUnchanged

\* get_or_create_daydata under the lock, then the store of the counter
MxTsUnlock(w) ==
  /\ mx.ts[w].pc = "locked"
  /\ \E t \in 0..(Capacity - 1) :
       date_to_daydata_' = ts_mark_done(date_to_daydata_, mx.ts[w].date_idx, w, t)
  /\ mx' = [mx EXCEPT !.map_mutex_ = {},
                      !.ts[w].pc = "call",
                      !.ts_cache_date_[w] = {mx.ts[w].date_idx}]
  /\ MutexUnchanged

\* the worker goes on to the next date
MxTsNextDate(w) ==
  /\ mx.ts[w].pc = "call"
  /\ mx.ts[w].date_idx < NumDates
  /\ mx' = [mx EXCEPT !.ts[w].date_idx = @ + 1]
  /\ UNCHANGED date_to_daydata_
  /\ MutexUnchanged

\* cs_check_ready, cache hit: no lock
MxCsCheckReady ==
  /\ mx.cs.pc = "check"
  /\ mx.cs_cache_date_ = {mx.cs.date_idx}
  /\ mx' = [mx EXCEPT !.cs = after_check(@, all_cores_past(date_to_daydata_,
                                                           mx.cs.date_idx, mx.cs.t))]
  /\ UNCHANGED date_to_daydata_
  /\ MutexUnchanged

\* cs_check_ready, cache miss: lock_guard of get_or_create_daydata
MxCsLock ==
  /\ mx.cs.pc = "check"
  /\ mx.cs_cache_date_ # {mx.cs.date_idx}
  /\ mx.map_mutex_ = {}
  /\ mx' = [mx EXCEPT !.map_mutex_ = {CS_WORKER},
                      !.cs.pc = "locked",
                      !.acquired = @ \cup {CS_WORKER}]
  /\ UNCHANGED date_to_daydata_
  /\ MutexUnchanged

\* get_or_create_daydata under the lock, then the loop over the counters
MxCsUnlock ==
  /\ mx.cs.pc = "locked"
  /\ LET m == get_or_create_daydata(date_to_daydata_, mx.cs.date_idx)
     IN /\ date_to_daydata_' = m
        /\ mx' = [mx EXCEPT
                    !.map_mutex_ = {},
                    !.cs_cache_date_ = {mx.cs.date_idx},
                    !.cs = after_check([@ EXCEPT !.pc = "check"],
                                       all_cores_past(m, mx.cs.date_idx, mx.cs.t))]
  /\ MutexUnchanged

\* cs_mark_complete: lock_guard
MxCsMarkLock ==
  /\ mx.cs.pc = "mark"
  /\ mx.map_mutex_ = {}
  /\ mx' = [mx EXCEPT !.map_mutex_ = {CS_WORKER},
                      !.cs.pc = "mark_locked",
                      !.acquired = @ \cup {CS_WORKER}]
  /\ UNCHANGED date_to_daydata_
  /\ MutexUnchanged

\* cs_mark_complete under the lock; the worker goes on to the next date
MxCsMarkUnlock ==
  /\ mx.cs.pc = "mark_locked"
  /\ date_to_daydata_' = cs_mark_complete(date_to_daydata_, mx.cs.date_idx)
  /\ mx' = [mx EXCEPT
              !.map_mutex_ = {},
              !.cs = [pc |-> IF mx.cs.date_idx + 1 = NumDates THEN "done" ELSE "check",
                      date_idx |-> mx.cs.date_idx + 1,
                      t |-> 0]]
  /\ MutexUnchanged

MutexNext ==
  \/ \E w \in Cores : MxTsMarkDone(w)
  \/ \E w \in Cores : MxTsLock(w)
  \/ \E w \in Cores : MxTsUnlock(w)
  \/ \E w \in Cores : MxTsNextDate(w)
  \/ MxCsCheckReady
  \/ MxCsLock
  \/ MxCsUnlock
  \/ MxCsMarkLock
  \/ MxCsMarkUnlock

SpecMutex == MutexInit /\ [][MutexNext]_vars

\* ------------------------------------------------------------------------
\* Properties
\* ------------------------------------------------------------------------
RECURSIVE SumQty(_)
SumQty(orders) == IF orders = <<>> THEN 0 ELSE Head(orders).qty + SumQty(Tail(orders))

LevelsOf(e) == {e.price_levels_[p] : p \in DOMAIN e.price_levels_}

\* C1: after every processed event, the net_quantity of every level of the
\* book equals the sum of the quantities of the orders stored in the level.
C1_NetQuantityIsSum ==
  \A level \in LevelsOf(lob) : level.net_quantity = SumQty(level.orders)

\* a level that holds several orders, one of them partially consumed
C1_Witness ==
  \E level \in LevelsOf(lob) :
    /\ Len(level.orders) >= 2
    /\ level.net_quantity # 0
    /\ \E i \in 1..Len(level.orders) : level.orders[i].qty = MaxVolume - 1
    /\ \E i \in 1..Len(level.orders) : level.orders[i].qty < 0

LookupEntryOk(e, id) ==
  LET loc == e.order_lookup_[id]
  IN /\ loc.level \in DOMAIN e.price_levels_
     /\ loc.index < Len(e.price_levels_[loc.level].orders)
     /\ e.price_levels_[loc.level].orders[loc.index + 1].id = id

\* C2: after every processed event, every lookup entry id -> (level, index)
\* has index < len(level.orders) and level.orders[index].id = id, the entry
\* of an order displaced by a swap-and-pop removal included.
C2_LookupPointsAtOrder ==
  \A id \in DOMAIN lob.order_lookup_ : LookupEntryOk(lob, id)

\* the next event removes an order from the middle of a level, so that the
\* last order of the level is moved to the freed index
C2_Witness ==
  /\ ~exited
  /\ nEvents < MaxEvents
  /\ \E o \in Arrivals : \E visit \in Visits(o) : \E id \in DOMAIN lob.order_lookup_ :
       /\ id \in DOMAIN After(o, visit).order_lookup_
       /\ After(o, visit).order_lookup_[id].index < lob.order_lookup_[id].index
       /\ LookupEntryOk(After(o, visit), id)

\* C3: after every processed event, for every price p the visible-price
\* bitmap has the bit of p set iff the book has a level at p whose
\* net_quantity is not 0.
C3_BitmapIffNonzeroLevel ==
  \A p \in 0..MaxPrice :
    p \in lob.visible_price_bitmap_
      <=> (p \in DOMAIN lob.price_levels_ /\ lob.price_levels_[p].net_quantity # 0)

\* a level that is kept in the book with orders but net_quantity 0 (hidden)
\* and that the next event makes visible again
C3_Witness ==
  /\ ~exited
  /\ nEvents < MaxEvents
  /\ \E p \in DOMAIN lob.price_levels_ :
       /\ lob.price_levels_[p].net_quantity = 0
       /\ lob.price_levels_[p].order_count > 0
       /\ p \notin lob.visible_price_bitmap_
       /\ \E o \in Arrivals : \E visit \in Visits(o) :
            p \in After(o, visit).visible_price_bitmap_

\* C4: in every state between events, if best_bid and best_ask are both
\* nonzero then best_bid < best_ask.
C4_BookNeverCrossed ==
  (best_bid(lob) # 0 /\ best_ask(lob) # 0) => best_bid(lob) < best_ask(lob)

\* ------------------------------------------------------------------------
\* Properties of single events.  They are stated on the state in which the
\* event arrives: After(o, visit) is the engine once process(o) has returned.
\* ------------------------------------------------------------------------
T_0930 == PackTick(MORNING_CALL_AUCTION_START_HOUR, MORNING_MATCHING_END_MINUTE, 0, 0)

InMorningCollectionWindow(t) ==
  /\ TickHour(t) = MORNING_CALL_AUCTION_START_HOUR
  /\ TickMinute(t) >= MORNING_CALL_AUCTION_START_MINUTE
  /\ TickMinute(t) < MORNING_CALL_AUCTION_END_MINUTE

InMorningMatchingWindow(t) ==
  /\ TickHour(t) = MORNING_CALL_AUCTION_START_HOUR
  /\ TickMinute(t) >= MORNING_MATCHING_START_MINUTE
  /\ TickMinute(t) < MORNING_MATCHING_END_MINUTE

\* o is an event the engine acts on: nonzero signed volume and target id
Effective(o) == get_signed_volume(o) # 0 /\ get_target_id(o) # 0

SameSign(a, b) == (a > 0 /\ b > 0) \/ (a < 0 /\ b < 0)

BookUnchanged(e1, e2) ==
  /\ e1.price_levels_ = e2.price_levels_
  /\ e1.order_lookup_ = e2.order_lookup_

\* the order of id sits in the level at price with quantity qty
OrderInBook(e, id, price, qty) ==
  /\ id \in DOMAIN e.order_lookup_
  /\ e.order_lookup_[id].level = price
  /\ LookupEntryOk(e, id)
  /\ e.price_levels_[price].orders[e.order_lookup_[id].index + 1].qty = qty

\* C5: once the first event timestamped at or after 09:30:00 has been
\* processed, the deferred queue holds no call_auction entry and every
\* call_auction entry that was still queued has been applied to the book at
\* its reported price with its queued signed volume, whatever came before.
C5_FlushAt0930 ==
  \A o \in Arrivals : \A visit \in Visits(o) :
    (lob.prev_tick_ < T_0930 /\ OrderTick(o) >= T_0930) =>
      /\ CallAuctionIds(After(o, visit)) = {}
      /\ \A id \in CallAuctionIds(lob) :
           (id # get_target_id(o) /\ id \notin DOMAIN lob.order_lookup_) =>
             OrderInBook(After(o, visit), id,
                         lob.deferred_queue_[id].reported_price,
                         lob.deferred_queue_[id].signed_volume)

\* C6: every maker with nonzero price that arrives in the morning collection
\* window or in the matching window is put in the deferred queue with reason
\* call_auction and is not applied to the book, whether or not the queue was
\* empty.
C6_AuctionMakerDeferred ==
  \A o \in Arrivals : \A visit \in Visits(o) :
    ( /\ o.order_type = MAKER
      /\ Effective(o)
      /\ o.price # 0
      /\ \/ InMorningCollectionWindow(OrderTick(o))
         \/ InMorningMatchingWindow(OrderTick(o)) ) =>
      /\ get_target_id(o) \in DOMAIN After(o, visit).deferred_queue_
      /\ After(o, visit).deferred_queue_[get_target_id(o)].reason = CALL_AUCTION
      /\ BookUnchanged(lob, After(o, visit))

\* the entry of id in the queue of e1 has been resolved against an event of
\* signed volume sv: erased, or left with the sum of the two volumes
ResolvedAgainstEntry(e1, e2, id, sv) ==
  \/ id \notin DOMAIN e2.deferred_queue_
  \/ e2.deferred_queue_[id].signed_volume = e1.deferred_queue_[id].signed_volume + sv

\* C7 (as stated): for every event whose target id has an entry in the
\* deferred queue, the event is resolved against that entry and no level,
\* order or lookup entry of the book is changed by the event.
C7_QueuedTargetLeavesBook ==
  \A o \in Arrivals : \A visit \in Visits(o) :
    (Effective(o) /\ get_target_id(o) \in DOMAIN lob.deferred_queue_) =>
      /\ BookUnchanged(lob, After(o, visit))
      /\ ResolvedAgainstEntry(lob, After(o, visit), get_target_id(o), get_signed_volume(o))

\* a maker is itself deferred: price 0 or arrival in a call-auction window
MakerIsDeferred(o) ==
  /\ o.order_type = MAKER
  /\ \/ o.price = 0
     \/ is_call_auction_period(OrderTick(o))
     \/ is_call_auction_matching_period(OrderTick(o))

\* C7 (amended): for every taker, cancel or deferred maker whose target id
\* has an entry in the deferred queue when update_lob consults the queue
\* (after the 09:30 flush, when the event triggers it), the event is resolved
\* against that entry and update_lob changes no level, order or lookup entry.
C7_QueuedTargetLeavesBookAmended ==
  \A o \in Arrivals : \A visit \in Visits(o) :
    ( /\ Effective(o)
      /\ get_target_id(o) \in DOMAIN AtLookup(o, visit).deferred_queue_
      /\ (o.order_type \in {TAKER, CANCEL} \/ MakerIsDeferred(o)) ) =>
      /\ BookUnchanged(AtLookup(o, visit), After(o, visit))
      /\ ResolvedAgainstEntry(AtLookup(o, visit), After(o, visit),
                              get_target_id(o), get_signed_volume(o))

\* a taker or cancel is about to arrive for an id that is both queued and in
\* the book
C7_Witness ==
  /\ ~exited
  /\ nEvents < MaxEvents
  /\ \E o \in Arrivals : \E visit \in Visits(o) :
       /\ Effective(o)
       /\ o.order_type \in {TAKER, CANCEL}
       /\ get_target_id(o) \in DOMAIN AtLookup(o, visit).deferred_queue_
       /\ get_target_id(o) \in DOMAIN AtLookup(o, visit).order_lookup_
       /\ get_target_id(o) \notin DOMAIN After(o, visit).deferred_queue_

MakerReasons == {CALL_AUCTION, SPECIAL_MAKER}

\* the outcome the deduction rule prescribes for the queue entry of id in e1
\* when an event of signed volume sv meets it
DeductionOutcome(e1, e2, id, sv) ==
  LET maker_volume == e1.deferred_queue_[id].signed_volume
      sum == maker_volume + sv
  IN IF sum # 0 /\ SameSign(sum, maker_volume)
     THEN /\ id \in DOMAIN e2.deferred_queue_
          /\ e2.deferred_queue_[id] = [e1.deferred_queue_[id] EXCEPT !.signed_volume = sum]
     ELSE id \notin DOMAIN e2.deferred_queue_

\* C8 (as stated): when a taker or cancel arrives for an id whose maker is
\* in the deferred queue, the two signed volumes are added; a nonzero sum of
\* the maker's sign stays in the queue entry as its volume, a zero sum or a
\* sum of the opposite sign erases the entry.
C8_DeductFromQueuedMaker ==
  \A o \in Arrivals : \A visit \in Visits(o) :
    ( /\ Effective(o)
      /\ o.order_type \in {TAKER, CANCEL}
      /\ get_target_id(o) \in DOMAIN lob.deferred_queue_
      /\ lob.deferred_queue_[get_target_id(o)].reason \in MakerReasons ) =>
      DeductionOutcome(lob, After(o, visit), get_target_id(o), get_signed_volume(o))

\* C8 (amended): the same for a maker that is in the deferred queue when
\* update_lob consults the queue, that is, after the 09:30 flush when the
\* event triggers it.
C8_DeductFromQueuedMakerAmended ==
  \A o \in Arrivals : \A visit \in Visits(o) :
    ( /\ Effective(o)
      /\ o.order_type \in {TAKER, CANCEL}
      /\ get_target_id(o) \in DOMAIN AtLookup(o, visit).deferred_queue_
      /\ AtLookup(o, visit).deferred_queue_[get_target_id(o)].reason \in MakerReasons ) =>
      DeductionOutcome(AtLookup(o, visit), After(o, visit),
                       get_target_id(o), get_signed_volume(o))

\* two makers are queued; one event can overshoot the first (sum of the
\* opposite sign, entry erased), another can partly consume the second
C8_Witness ==
  /\ ~exited
  /\ nEvents < MaxEvents
  /\ \E o \in Arrivals : \E visit \in Visits(o) :
       /\ o.order_type = TAKER
       /\ get_target_id(o) \in DOMAIN AtLookup(o, visit).deferred_queue_
       /\ AtLookup(o, visit).deferred_queue_[get_target_id(o)].reason \in MakerReasons
       /\ SameSign(AtLookup(o, visit).deferred_queue_[get_target_id(o)].signed_volume,
                   - (AtLookup(o, visit).deferred_queue_[get_target_id(o)].signed_volume
                      + get_signed_volume(o)))
       /\ get_target_id(o) \notin DOMAIN After(o, visit).deferred_queue_
  /\ \E o \in Arrivals : \E visit \in Visits(o) :
       /\ o.order_type = CANCEL
       /\ get_target_id(o) \in DOMAIN AtLookup(o, visit).deferred_queue_
       /\ AtLookup(o, visit).deferred_queue_[get_target_id(o)].reason \in MakerReasons
       /\ get_target_id(o) \in DOMAIN After(o, visit).deferred_queue_
       /\ After(o, visit).deferred_queue_[get_target_id(o)].signed_volume
            # AtLookup(o, visit).deferred_queue_[get_target_id(o)].signed_volume

TakerCancelReasons == {OUT_OF_ORDER, ZERO_PRICE_CANCEL}

\* C9: when a maker arrives for an id that has a queued out-of-order taker
\* or cancel entry, the volumes are added and that queue entry is erased; a
\* remainder is kept as a maker only if the sum has the arriving maker's
\* sign: if the sum is zero or has the opposite sign, the maker is fully
\* consumed and no order for the id is created.
C9_MakerMeetsQueuedTaker ==
  \A o \in Arrivals : \A visit \in Visits(o) :
    ( /\ Effective(o)
      /\ o.order_type = MAKER
      /\ get_target_id(o) \in DOMAIN lob.deferred_queue_
      /\ lob.deferred_queue_[get_target_id(o)].reason \in TakerCancelReasons ) =>
      LET id == get_target_id(o)
          sum == get_signed_volume(o) + lob.deferred_queue_[id].signed_volume
          e == After(o, visit)
      IN /\ id \in DOMAIN e.deferred_queue_ =>
              e.deferred_queue_[id].reason \in MakerReasons
         /\ ~(sum # 0 /\ SameSign(sum, get_signed_volume(o))) =>
              /\ id \notin DOMAIN e.deferred_queue_
              /\ id \notin DOMAIN lob.order_lookup_ => id \notin DOMAIN e.order_lookup_

\* the lowest price above p whose bitmap bit is set, 0 when there is none
LowestVisibleAbove(e, p) ==
  IF \E q \in e.visible_price_bitmap_ : q > p
  THEN SetMin({q \in e.visible_price_bitmap_ : q > p})
  ELSE 0

\* o is a buy taker that consumes an order of the book at the level of the
\* best ask
BuyTakerAtBestAsk(o, visit) ==
  /\ o.order_type = TAKER
  /\ o.order_dir = BID
  /\ Effective(o)
  /\ get_target_id(o) \notin DOMAIN AtLookup(o, visit).deferred_queue_
  /\ get_target_id(o) \in DOMAIN AtLookup(o, visit).order_lookup_
  /\ best_ask(lob) # 0
  /\ AtLookup(o, visit).order_lookup_[get_target_id(o)].level = best_ask(lob)

\* C10: after a buy taker whose consumption leaves the best-ask level with
\* no remaining quantity, best_ask is the lowest price above the old best ask
\* whose visible-bitmap bit is set (0, the value for "none", when no price
\* above it is visible).
C10_BestAskAdvances ==
  \A o \in Arrivals : \A visit \in Visits(o) :
    LET e == After(o, visit)
        old == best_ask(lob)
    IN ( /\ BuyTakerAtBestAsk(o, visit)
         /\ old \in DOMAIN e.price_levels_ => e.price_levels_[old].net_quantity = 0 ) =>
       best_ask(e) = LowestVisibleAbove(e, old)

\* o is a taker that update_lob applies to an order of the book
TakerConsumesBookOrder(o, visit) ==
  /\ o.order_type = TAKER
  /\ Effective(o)
  /\ get_target_id(o) \notin DOMAIN AtLookup(o, visit).deferred_queue_
  /\ get_target_id(o) \in DOMAIN AtLookup(o, visit).order_lookup_

\* C11: after a taker that leaves the traded level with nonzero net
\* quantity, the best price of the consumed side (best_ask for a buy taker,
\* best_bid for a sell taker) is that level's price.
C11_PartialFillKeepsTob ==
  \A o \in Arrivals : \A visit \in Visits(o) :
    TakerConsumesBookOrder(o, visit) =>
      LET e == After(o, visit)
          p == AtLookup(o, visit).order_lookup_[get_target_id(o)].level
      IN (p \in DOMAIN e.price_levels_ /\ e.price_levels_[p].net_quantity # 0) =>
           IF o.order_dir = BID THEN best_ask(e) = p ELSE best_bid(e) = p

\* the levels, the lookup table, the deferred queue, the visible bitmap and
\* the top of book (as the getters report it) are the same in e1 and e2
EngineUnchanged(e1, e2) ==
  /\ BookUnchanged(e1, e2)
  /\ e1.deferred_queue_ = e2.deferred_queue_
  /\ e1.visible_price_bitmap_ = e2.visible_price_bitmap_
  /\ best_bid(e1) = best_bid(e2)
  /\ best_ask(e1) = best_ask(e2)

\* o has zero signed volume, zero target id, or a type other than maker,
\* cancel and taker
IgnoredEvent(o) ==
  \/ get_signed_volume(o) = 0
  \/ get_target_id(o) = 0
  \/ o.order_type \notin {MAKER, CANCEL, TAKER}

\* C12 (as stated): an event with zero signed volume, zero target id or a
\* type other than maker, cancel, taker changes nothing in the levels, the
\* lookup table, the deferred queue, the visible bitmap or the top of book.
C12_IgnoredEventChangesNothing ==
  \A o \in Arrivals : \A visit \in Visits(o) :
    IgnoredEvent(o) => EngineUnchanged(lob, After(o, visit))

\* C12 (amended): such an event changes nothing beyond the 09:30 flush that
\* its timestamp triggers in process(): the engine after the event equals the
\* engine as update_lob found it.
C12_IgnoredEventChangesNothingAmended ==
  \A o \in Arrivals : \A visit \in Visits(o) :
    IgnoredEvent(o) => EngineUnchanged(AtLookup(o, visit), After(o, visit))

\* an ignored row of each kind is about to arrive while call-auction makers
\* are queued, one of them with the timestamp that triggers the flush
C12_Witness ==
  /\ ~exited
  /\ nEvents < MaxEvents
  /\ CallAuctionIds(lob) # {}
  /\ \E o \in Arrivals : get_signed_volume(o) = 0 /\ o.order_type = MAKER
  /\ \E o \in Arrivals : get_target_id(o) = 0 /\ get_signed_volume(o) # 0
  /\ \E o \in Arrivals : o.order_type = CHANGE
  /\ \E o \in Arrivals : IgnoredEvent(o) /\ flush_triggered(was_in_matching_period, o)

ZeroPriceCancel(o) == o.order_type = CANCEL /\ o.price = 0 /\ Effective(o)

\* the quantity of the order of id in the book of e
QtyInBook(e, id) ==
  e.price_levels_[e.order_lookup_[id].level].orders[e.order_lookup_[id].index + 1].qty

\* the cancel o of signed volume sv has been applied to the book order of id
\* that e1 holds at price p: a full cancel removes the order, its lookup
\* entry and the level if it becomes empty, a partial one reduces the order
CancelAppliedAtLevel(e1, e2, id, sv) ==
  LET p == e1.order_lookup_[id].level
      q == QtyInBook(e1, id)
  IN IF q + sv = 0
     THEN /\ id \notin DOMAIN e2.order_lookup_
          /\ p \in DOMAIN e2.price_levels_ =>
               /\ e2.price_levels_[p].order_count > 0
               /\ e2.price_levels_[p].order_count = Len(e2.price_levels_[p].orders)
               /\ \A i \in 1..Len(e2.price_levels_[p].orders) :
                    e2.price_levels_[p].orders[i].id # id
     ELSE OrderInBook(e2, id, p, q + sv)

\* the cancel o has been put in the queue with reason zero_price_cancel
CancelEnqueuedZeroPrice(e2, o) ==
  /\ get_target_id(o) \in DOMAIN e2.deferred_queue_
  /\ e2.deferred_queue_[get_target_id(o)].reason = ZERO_PRICE_CANCEL
  /\ e2.deferred_queue_[get_target_id(o)].signed_volume = get_signed_volume(o)

\* C13 (as stated): for a cancel with reported price 0, if its self maker is
\* in the lookup table the cancel is applied at that maker's level price; if
\* the maker is in neither the lookup table nor the deferred queue, the
\* cancel is enqueued with reason zero_price_cancel.
C13_ZeroPriceCancel ==
  \A o \in Arrivals : \A visit \in Visits(o) :
    ZeroPriceCancel(o) =>
      LET id == get_target_id(o)
      IN /\ id \in DOMAIN lob.order_lookup_ =>
              CancelAppliedAtLevel(lob, After(o, visit), id, get_signed_volume(o))
         /\ (id \notin DOMAIN lob.order_lookup_ /\ id \notin DOMAIN lob.deferred_queue_) =>
              CancelEnqueuedZeroPrice(After(o, visit), o)

\* C13 (amended): the first case only when the id has no entry in the
\* deferred queue (an entry in the queue is served first and the book is
\* left alone).
C13_ZeroPriceCancelAmended ==
  \A o \in Arrivals : \A visit \in Visits(o) :
    ZeroPriceCancel(o) =>
      LET id == get_target_id(o)
      IN /\ (id \in DOMAIN lob.order_lookup_ /\ id \notin DOMAIN lob.deferred_queue_) =>
              CancelAppliedAtLevel(lob, After(o, visit), id, get_signed_volume(o))
         /\ (id \notin DOMAIN lob.order_lookup_ /\ id \notin DOMAIN lob.deferred_queue_) =>
              CancelEnqueuedZeroPrice(After(o, visit), o)

\* a zero-price cancel can fully cancel the only order of a level, which
\* removes the level, and another can arrive for an id nobody knows
C13_Witness ==
  /\ ~exited
  /\ nEvents < MaxEvents
  /\ \E o \in Arrivals : \E visit \in Visits(o) :
       /\ ZeroPriceCancel(o)
       /\ get_target_id(o) \in DOMAIN lob.order_lookup_
       /\ get_target_id(o) \notin DOMAIN lob.deferred_queue_
       /\ lob.order_lookup_[get_target_id(o)].level \notin DOMAIN After(o, visit).price_levels_
  /\ \E o \in Arrivals : \E visit \in Visits(o) :
       /\ ZeroPriceCancel(o)
       /\ get_target_id(o) \notin DOMAIN lob.order_lookup_
       /\ get_target_id(o) \notin DOMAIN lob.deferred_queue_
       /\ CancelEnqueuedZeroPrice(After(o, visit), o)

\* ------------------------------------------------------------------------
\* Scenarios: two events fed to the engine of the current state
\* ------------------------------------------------------------------------
\* the engine after o1 then o2, neither of which triggers the flush
AfterTwo(o1, o2) ==
  process(process(lob, was_in_matching_period, o1, <<>>),
          is_call_auction_matching_period(OrderTick(o1)), o2, <<>>)

ContinuousSession == <<MORNING_CALL_AUCTION_START_HOUR, MORNING_MATCHING_END_MINUTE, 0>>

\* e holds no level, no lookup entry and no deferred entry
EmptyEngine(e) ==
  /\ DOMAIN e.price_levels_ = {}
  /\ DOMAIN e.order_lookup_ = {}
  /\ DOMAIN e.deferred_queue_ = {}
  /\ e.visible_price_bitmap_ = {}

\* the out-of-order pair: a buy taker for ask id, then the ask maker of id
\* at the same price with a larger volume
OutOfOrderPairs ==
  {<<MkOrder(ContinuousSession, TAKER, BID, px, tv, 0, id),
     MkOrder(ContinuousSession, MAKER, ASK, px, mv, 0, id)>> :
     px \in TakerPrices, tv \in Volumes, mv \in Volumes, id \in Ids}

\* what the scenario says of the engine e1 after the taker and e2 after the
\* maker
OutOfOrderOutcome(e1, e2, id, px, tv, mv) ==
  /\ DOMAIN e1.deferred_queue_ = {id}
  /\ e1.deferred_queue_[id].signed_volume = tv
  /\ e1.deferred_queue_[id].reason = OUT_OF_ORDER
  /\ DOMAIN e1.price_levels_ = {}
  /\ DOMAIN e2.deferred_queue_ = {}
  /\ px \in DOMAIN e2.price_levels_
  /\ e2.price_levels_[px].net_quantity = tv - mv

\* C14: starting from an empty engine in continuous session, a buy taker for
\* an unknown ask id leaves the queue holding exactly {id: +vol, out_of_order}
\* and creates no level; the following ask maker of that id at the same price
\* with a larger volume leaves the queue empty and the level with net
\* quantity taker volume - maker volume (vol 3 then 10 at 2000: -7).
C14_OutOfOrderTaker ==
  EmptyEngine(lob) =>
    /\ \A pair \in OutOfOrderPairs :
         pair[1].volume < pair[2].volume =>
           OutOfOrderOutcome(After(pair[1], <<>>), AfterTwo(pair[1], pair[2]),
                             pair[1].ask_order_id, pair[1].price,
                             pair[1].volume, pair[2].volume)
    /\ OutOfOrderOutcome(
         After(MkOrder(ContinuousSession, TAKER, BID, 2000, 3, 0, 5), <<>>),
         AfterTwo(MkOrder(ContinuousSession, TAKER, BID, 2000, 3, 0, 5),
                  MkOrder(ContinuousSession, MAKER, ASK, 2000, 10, 0, 5)),
         5, 2000, 3, 10)

\* the state the scenario ends in: the two events have been processed
C14_Witness ==
  /\ nEvents = 2
  /\ \E pair \in OutOfOrderPairs :
       /\ pair[1].volume < pair[2].volume
       /\ lob = process(process(NewEngine, FALSE, pair[1], <<>>), FALSE, pair[2], <<>>)
       /\ lob.price_levels_[pair[1].price].net_quantity < 0

\* the special-maker pair: a bid maker without price, then the sell taker
\* that trades against it with the same volume
SpecialMakerPairs ==
  {<<MkOrder(t, MAKER, BID, 0, v, id, 0),
     MkOrder(t, TAKER, ASK, px, v, id, self)>> :
     t \in Times, v \in Volumes, id \in Ids, self \in 0..MaxId, px \in TakerPrices}

\* what the scenario says of the engine e1 after the maker and e2 after the
\* taker
SpecialMakerOutcome(e1, e2, id, self, v) ==
  /\ id \in DOMAIN e1.deferred_queue_
  /\ e1.deferred_queue_[id].reason = SPECIAL_MAKER
  /\ e1.deferred_queue_[id].signed_volume = v
  /\ DOMAIN e1.price_levels_ = {}
  /\ id \notin DOMAIN e2.deferred_queue_
  /\ self \notin DOMAIN e2.deferred_queue_
  /\ DOMAIN e2.price_levels_ = {}

\* C15: on an empty engine a bid maker with price 0 is enqueued with reason
\* special_maker and creates no level; the following sell taker on that bid
\* id with the same volume consumes the entry: afterwards the queue has no
\* entry for the id nor for the taker's own id, and no level was created
\* (maker id 9 vol 8, taker at 1050).
C15_SpecialMakerThenTaker ==
  EmptyEngine(lob) =>
    /\ \A pair \in SpecialMakerPairs :
         pair[1] \in Arrivals =>
           SpecialMakerOutcome(After(pair[1], <<>>), AfterTwo(pair[1], pair[2]),
                               pair[1].bid_order_id, pair[2].ask_order_id,
                               pair[1].volume)
    /\ SpecialMakerOutcome(
         After(MkOrder(ContinuousSession, MAKER, BID, 0, 8, 9, 0), <<>>),
         AfterTwo(MkOrder(ContinuousSession, MAKER, BID, 0, 8, 9, 0),
                  MkOrder(ContinuousSession, TAKER, ASK, 1050, 8, 9, 7)),
         9, 7, 8)

\* the state the scenario ends in: maker and taker have been processed and
\* the engine is empty again
C15_Witness ==
  /\ nEvents = 2
  /\ EmptyEngine(lob)
  /\ \E pair \in SpecialMakerPairs :
       /\ pair[2].ask_order_id # 0
       /\ lob = process(process(NewEngine, FALSE, pair[1], <<>>),
                        is_call_auction_matching_period(OrderTick(pair[1])),
                        pair[2], <<>>)

\* C16: clear returns to its caller and leaves the engine with no levels, no
\* lookup entries, no deferred entries, an all-zero bitmap and best_bid =
\* best_ask = 0, so that the next event is processed exactly as by a freshly
\* constructed engine.
C16_ClearReturnsFreshEngine ==
  [][Clear =>
       /\ ~exited'
       /\ EmptyEngine(lob')
       /\ best_bid(lob') = 0
       /\ best_ask(lob') = 0
       /\ \A o \in Orders :
            process(lob', was_in_matching_period', o, <<>>)
              = process(NewEngine, FALSE, o, <<>>)]_vars

\* ------------------------------------------------------------------------
\* Properties of the feature store
\* ------------------------------------------------------------------------
\* the time-series worker of asset a is through with slot (date, t) of a
SlotWritten(a, date, t) ==
  LET w == assigned_worker_id[a]
      k == CHOOSE j \in 1..Len(my_asset_ids(w)) : my_asset_ids(w)[j] = a
  IN \/ ts_pos[w].date_idx > date
     \/ /\ ts_pos[w].date_idx = date
        /\ \/ ts_pos[w].i > k - 1
           \/ ts_pos[w].i = k - 1 /\ ts_pos[w].t > t

\* C17: the cross-sectional worker computes slot (date, t) only when the
\* progress counter of every time-series worker for that date exceeds t, so
\* that every asset's time-series writes for (date, t) have been made.
C17_CsReadsAfterAllWrites ==
  cs.pc = "compute" =>
    /\ \A w \in Cores : date_to_daydata_[cs.date_idx].ts_progress[w] > cs.t
    /\ \A a \in Assets : SlotWritten(a, cs.date_idx, cs.t)

\* C18: for each date and worker the progress counter never decreases.
C18_ProgressMonotonic ==
  [][\A d \in DOMAIN date_to_daydata_ : \A w \in Cores :
       date_to_daydata_'[d].ts_progress[w] >= date_to_daydata_[d].ts_progress[w]]_vars

LifecycleEdges ==
  {<<UNUSED, IN_USE>>, <<IN_USE, CS_DONE>>, <<CS_DONE, FLUSHING>>, <<FLUSHING, UNUSED>>}

\* C19: every change of a tensor's lifecycle state follows one of the edges
\* unused -> in_use, in_use -> cs_done, cs_done -> flushing,
\* flushing -> unused.
C19_LifecycleEdgesOnly ==
  [][\A d \in DOMAIN date_to_daydata_ :
       date_to_daydata_'[d].state # date_to_daydata_[d].state =>
         <<date_to_daydata_[d].state, date_to_daydata_'[d].state>> \in LifecycleEdges]_vars

\* a tensor has gone all the way round while another one is still in use
C19_Witness ==
  \E d1, d2 \in DOMAIN date_to_daydata_ :
    /\ date_to_daydata_[d1].state = UNUSED
    /\ date_to_daydata_[d2].state = IN_USE
    /\ io.flush_count > 0

\* C20: whenever the I/O worker flushes a tensor, it is the one with the
\* earliest date among the tensors in state cs_done.
C20_FlushesOldestCsDone ==
  io.pc \in {"mark_flushing", "flush"} =>
    \A d \in cs_done_dates(date_to_daydata_) : io.date_to_flush <= d

\* the I/O worker is flushing a tensor while a later one is already cs_done
C20_Witness ==
  /\ io.pc = "flush"
  /\ \E d \in cs_done_dates(date_to_daydata_) : d > io.date_to_flush

\* ------------------------------------------------------------------------
\* The parts above at rest, for the state machines of single classes below
\* ------------------------------------------------------------------------
restVars == <<lobVars, storeVars, cdc, bin, enc, eng, mx>>

RestStart ==
  /\ LobStart
  /\ StoreStart
  /\ assigned_worker_id = [a \in Assets |-> 0]
  /\ cdc = [pc |-> "idle"]
  /\ bin = [pc |-> "idle"]
  /\ enc = [pc |-> "idle"]
  /\ eng = [pc |-> "idle"]
  /\ mx = [pc |-> "idle"]

\* ------------------------------------------------------------------------
\* State machine of the run-bar sampler (class ResampleRunBar): one object
\* is given the trades of MaxDay + 1 trading days in the order they happen.
\* A trade is [day, t, is_bid, volume]; the sampler sees only the packed
\* time of day.  The constants L2::RESAMPLE_MIN_PERIOD,
\* L2::RESAMPLE_INIT_VOLUME_THD and L2::RESAMPLE_EMA_DAYS_PERIOD are not
\* defined in the sources at hand: the first two are drawn from small sets
\* at the start, and the blend of on_new_day, whose weight the third one
\* fixes, is any value between the old threshold and the new daily one.
\* Thresholds are floats in the code; a float threshold x is kept as the
\* least integer >= x, which leaves every comparison with an integer volume
\* as it is.  rb.call is what the last call of resample was given and what
\* it answered.
\* ------------------------------------------------------------------------
\* times of day <<hour, minute, second>> of the trades
RunBarTimes == {<<9, 25, 0>>, <<9, 30, 59>>, <<9, 31, 0>>}

RunBarDays == 0..MaxDay

\* values of L2::RESAMPLE_MIN_PERIOD considered (seconds)
MinPeriods == {1, 2}

\* values of L2::RESAMPLE_INIT_VOLUME_THD considered
InitThresholds == {-1, 1, MaxVolume + 1}

RunBarTrades ==
  [day : RunBarDays, t : RunBarTimes, is_bid : BOOLEAN, volume : Volumes]

\* LimitOrderBook::curr_tick_ of a trade
TradeTimestamp(trade) == PackTick(trade.t[1], trade.t[2], trade.t[3], 0)

SecondOfDay(t) == t[1] * 3600 + t[2] * 60 + t[3]

\* seconds from the moment <<day, t>> a to the moment b
ElapsedSeconds(a, b) ==
  (b[1] - a[1]) * 86400 + SecondOfDay(b[2]) - SecondOfDay(a[2])

Max2(a, b) == IF a >= b THEN a ELSE b

\* accumulate_volume on 32-bit accumulators
accumulate_volume(r, is_bid, volume) ==
  IF is_bid THEN [r EXCEPT !.accum_buy_ = @ + volume]
  ELSE [r EXCEPT !.accum_sell_ = @ + volume]

\* "(timestamp >> 8) - (last_emit_timestamp_ >> 8) < RESAMPLE_MIN_PERIOD" in
\* uint32_t: when the first operand is the smaller one the difference wraps
\* to more than 2^32 - 2^24, which no period considered here reaches
time_guard_blocks(timestamp, last_emit_timestamp_, min_period) ==
  LET a == timestamp \div 256
      b == last_emit_timestamp_ \div 256
  IN a >= b /\ a - b < min_period

should_emit_bar(r, timestamp) ==
  LET max_side == Max2(r.accum_buy_, r.accum_sell_)
      threshold == Max2(r.threshold_ema_, 0)
  IN IF max_side < threshold THEN FALSE
     ELSE IF time_guard_blocks(timestamp, r.last_emit_timestamp_, r.min_period) THEN FALSE
     ELSE TRUE

RECURSIVE SeqSum(_)
SeqSum(q) == IF q = <<>> THEN 0 ELSE Head(q) + SeqSum(Tail(q))

SeqMin(q) == CHOOSE x \in {q[i] : i \in 1..Len(q)} : \A i \in 1..Len(q) : x <= q[i]

\* compute_optimal_threshold: with threshold_max - threshold_min < 100 the
\* first iteration returns 0.5 * (min + sum); kept as its ceiling
compute_optimal_threshold(r) ==
  IF r.daily_volumes_ = <<>> THEN 0
  ELSE (SeqMin(r.daily_volumes_) + SeqSum(r.daily_volumes_) + 1) \div 2

\* the values threshold_ema_ can take in on_new_day
NewDayThresholds(r) ==
  IF r.daily_labels_ = <<>> THEN {r.threshold_ema_}
  ELSE LET threshold_daily_ == compute_optimal_threshold(r)
       IN IF r.threshold_ema_ < 0 THEN {threshold_daily_}
          ELSE {x \in 0..(Max2(threshold_daily_, r.threshold_ema_)) :
                  \/ threshold_daily_ <= x /\ x <= r.threshold_ema_
                  \/ r.threshold_ema_ <= x /\ x <= threshold_daily_}

on_new_day(r, threshold) ==
  [r EXCEPT !.daily_bar_count_ = 1,
            !.threshold_ema_ = threshold,
            !.daily_labels_ = <<>>,
            !.daily_volumes_ = <<>>]

\* the sampler after emit_bar, for each value on_new_day can give the
\* threshold
emit_bar(r, timestamp, is_bid, volume) ==
  LET hour == (timestamp \div 16777216) % 256
      r1 == [r EXCEPT !.accum_buy_ = 0,
                      !.accum_sell_ = 0,
                      !.last_emit_timestamp_ = timestamp,
                      !.daily_bar_count_ = @ + 1]
      after_day == IF hour = 9 /\ r.last_hour_ # 9
                   THEN {on_new_day(r1, x) : x \in NewDayThresholds(r1)}
                   ELSE {r1}
  IN {[r2 EXCEPT !.last_hour_ = hour,
                 !.daily_labels_ = Append(@, is_bid),
                 !.daily_volumes_ = Append(@, volume)] : r2 \in after_day}

\* resample: the sampler afterwards and the bool returned
resample(r, timestamp, is_bid, volume) ==
  LET r1 == accumulate_volume(r, is_bid, volume)
  IN IF ~should_emit_bar(r1, timestamp)
     THEN {[r |-> r1, emitted |-> FALSE]}
     ELSE {[r |-> r2, emitted |-> TRUE] : r2 \in emit_bar(r1, timestamp, is_bid, volume)}

RunBarInit ==
  /\ RestStart
  /\ bp = [pc |-> "idle"]
  /\ hm = [pc |-> "idle"]
  /\ fb = [pc |-> "idle"]
  /\ tq = [pc |-> "idle"]
  /\ pp = [pc |-> "idle"]
  /\ \E min_period \in MinPeriods : \E threshold \in InitThresholds :
       rb = [pc |-> "run",
             r |-> [accum_buy_ |-> 0, accum_sell_ |-> 0,
                    threshold_ema_ |-> threshold,
                    last_emit_timestamp_ |-> 0, last_hour_ |-> 255,
                    daily_labels_ |-> <<>>, daily_volumes_ |-> <<>>,
                    daily_bar_count_ |-> 0, min_period |-> min_period],
             n |-> 0,
             now |-> <<0, <<9, 25, 0>>>>,
             last_bar |-> <<>>,
             call |-> <<>>]

\* One call of resample with the next trade of the tape
Resample ==
  /\ rb.pc = "run"
  /\ rb.n < MaxTrades
  /\ \E trade \in RunBarTrades :
       /\ ElapsedSeconds(rb.now, <<trade.day, trade.t>>) >= 0
       /\ \E out \in resample(rb.r, TradeTimestamp(trade), trade.is_bid, trade.volume) :
            rb' = [rb EXCEPT
                     !.r = out.r,
                     !.n = @ + 1,
                     !.now = <<trade.day, trade.t>>,
                     !.last_bar = IF out.emitted THEN <<<<trade.day, trade.t>>>> ELSE @,
                     !.call = <<[trade |-> trade,
                                 max_side |-> Max2(accumulate_volume(rb.r, trade.is_bid, trade.volume).accum_buy_,
                                                   accumulate_volume(rb.r, trade.is_bid, trade.volume).accum_sell_),
                                 threshold_ema |-> rb.r.threshold_ema_,
                                 last_bar |-> rb.last_bar,
                                 emitted |-> out.emitted]>>]
  /\ UNCHANGED <<restVars, bp, hm, fb, tq, pp>>

RunBarNext == Resample

SpecRunBar == RunBarInit /\ [][RunBarNext]_vars

\* ------------------------------------------------------------------------
\* State machine of FastBitmap<SIZE>: words_ is kept as the set of indices
\* of the bits that are set; word w holds the indices 64 w .. 64 w + 63.
\* The size is BitmapWords words.  fb.asked is the index find_prev was last
\* called with and fb.result what it returned; fb.n counts the calls of set
\* and clear.
\* ------------------------------------------------------------------------
WordBits == 64

SIZE == BitmapWords * WordBits

\* the indices set and cleared: around the word boundaries
BitPositions ==
  {0, 1, SIZE - 1}
  \cup {w * WordBits - 1 : w \in 1..(BitmapWords - 1)}
  \cup {w * WordBits : w \in 1..(BitmapWords - 1)}

\* "(1ULL << (bit_offset + 1)) - 1" as the set of bit numbers it keeps.  For
\* bit_offset = 63 the shift count is the width of the type, which is
\* undefined: a build that takes the count modulo 64 gets 1 - 1 = 0, one in
\* which the shift gives 0 gets 0 - 1 = all ones.
low_bits_masks(bit_offset) ==
  IF bit_offset + 1 < WordBits
  THEN {0..bit_offset}
  ELSE {{}, 0..(WordBits - 1)}

\* the bits of word word_idx, as bit numbers within the word
word_at(words_, word_idx) ==
  {b \in 0..(WordBits - 1) : word_idx * WordBits + b \in words_}

\* "63 - __builtin_clzll(word)" for word # 0
highest_set_bit(word) == CHOOSE b \in word : \A c \in word : c <= b

\* the backward scan over the words below start_word
RECURSIVE scan_back(_, _)
scan_back(words_, word_idx) ==
  IF word_idx = 0 THEN SIZE
  ELSE IF word_at(words_, word_idx - 1) # {}
       THEN (word_idx - 1) * WordBits + highest_set_bit(word_at(words_, word_idx - 1))
       ELSE scan_back(words_, word_idx - 1)

\* find_prev: the values the call can return
find_prev(words_, idx) ==
  IF idx = 0 THEN {SIZE}
  ELSE LET start_bit == idx - 1
           start_word == start_bit \div WordBits
           bit_offset == start_bit % WordBits
       IN {LET word == word_at(words_, start_word) \cap mask
           IN IF word # {}
              THEN start_word * WordBits + highest_set_bit(word)
              ELSE scan_back(words_, start_word)
           : mask \in low_bits_masks(bit_offset)}

BitmapInit ==
  /\ RestStart
  /\ rb = [pc |-> "idle"]
  /\ bp = [pc |-> "idle"]
  /\ hm = [pc |-> "idle"]
  /\ tq = [pc |-> "idle"]
  /\ pp = [pc |-> "idle"]
  /\ fb = [pc |-> "run", words_ |-> {}, n |-> 0, asked |-> <<>>, result |-> 0]

BitmapUnchanged == UNCHANGED <<restVars, rb, bp, hm, tq, pp>>

\* set(idx)
FbSet ==
  /\ fb.pc = "run"
  /\ fb.n < MaxBitmapOps
  /\ \E idx \in BitPositions :
       fb' = [fb EXCEPT !.words_ = @ \cup {idx}, !.n = @ + 1,
                        !.asked = <<>>, !.result = 0]
  /\ BitmapUnchanged

\* clear(idx)
FbClear ==
  /\ fb.pc = "run"
  /\ fb.n < MaxBitmapOps
  /\ \E idx \in BitPositions :
       fb' = [fb EXCEPT !.words_ = @ \ {idx}, !.n = @ + 1,
                        !.asked = <<>>, !.result = 0]
  /\ BitmapUnchanged

\* find_prev(idx)
FbFindPrev ==
  /\ fb.pc = "run"
  /\ \E idx \in 0..(SIZE - 1) :
       \E result \in find_prev(fb.words_, idx) :
         fb' = [fb EXCEPT !.asked = <<idx>>, !.result = result]
  /\ BitmapUnchanged

BitmapNext == FbSet \/ FbClear \/ FbFindPrev

SpecBitmap == BitmapInit /\ [][BitmapNext]_vars

\* ------------------------------------------------------------------------
\* BitmapPool (define/MemPool.hpp): chunks of Chunk::SIZE slots, a bitmap
\* freelist_ with one bit per slot (1 = free), and a high-water mark.
\* A word of the bitmap is the set of its free bit positions.  A pointer
\* is the address of its slot in units of sizeof(T); the chunk that
\* operator new[] places at base b covers b * ChunkSize .. + ChunkSize - 1.
\* ------------------------------------------------------------------------
ChunkSize == ChunkWords * PoolWordBits

ChunkBases == 1..MaxPoolChunks

PoolPointers == ChunkSize..((MaxPoolChunks + 1) * ChunkSize - 1)

FullWord == 0..(PoolWordBits - 1)

chunk_base(b) == b * ChunkSize

\* __builtin_ctzll: the lowest bit of a non-zero word
ctz(free_bits) == CHOOSE b \in free_bits : \A c \in free_bits : b <= c

\* std::lower_bound over sorted_chunk_indices_ by chunk address
RECURSIVE chunk_lower_bound(_, _, _, _)
chunk_lower_bound(chunks, sorted, new_base, i) ==
  IF i > Len(sorted) \/ ~(chunks[sorted[i] + 1] < new_base) THEN i
  ELSE chunk_lower_bound(chunks, sorted, new_base, i + 1)

bp_expand_storage(p, base) ==
  LET chunks == Append(p.chunks_, base)
      new_idx == Len(chunks) - 1
      it      == chunk_lower_bound(chunks, p.sorted_chunk_indices_, base, 1)
      s       == p.sorted_chunk_indices_
  IN [p EXCEPT
        !.chunks_ = chunks,
        !.freelist_ = @ \o [w \in 1..ChunkWords |-> FullWord],
        !.sorted_chunk_indices_ =
            SubSeq(s, 1, it - 1) \o <<new_idx>> \o SubSeq(s, it, Len(s))]

slot_address(p, slot_idx) ==
  chunk_base(p.chunks_[(slot_idx \div ChunkSize) + 1]) + (slot_idx % ChunkSize)

\* the first word below search_limit with a free bit, or 0
RECURSIVE first_free_word(_, _, _)
first_free_word(freelist, word_idx, search_limit) ==
  IF word_idx >= search_limit THEN 0
  ELSE IF freelist[word_idx + 1] # {} THEN word_idx + 1
  ELSE first_free_word(freelist, word_idx + 1, search_limit)

\* allocate(): the pool after the call and the pointer returned; base is
\* where operator new[] places a chunk if the call has to expand
allocate_KeepsBitFree(p, base) ==
  LET search_limit == (p.peak_allocated_ + PoolWordBits - 1) \div PoolWordBits
      w == first_free_word(p.freelist_, 0, search_limit)
  IN IF w # 0
       THEN LET bit_idx  == ctz(p.freelist_[w])
                slot_idx == (w - 1) * PoolWordBits + bit_idx
            IN [p |-> [p EXCEPT
                        !.num_alive_ = @ + 1,
                        !.peak_allocated_ =
                            IF slot_idx >= @ THEN slot_idx + 1 ELSE @],
                ptr |-> slot_address(p, slot_idx)]
       ELSE LET slot_idx  == p.peak_allocated_
                chunk_idx == slot_idx \div ChunkSize
                p1 == IF chunk_idx >= Len(p.chunks_)
                        THEN bp_expand_storage(p, base) ELSE p
                word_idx == slot_idx \div PoolWordBits
                bit_idx  == slot_idx % PoolWordBits
            IN [p |-> [p1 EXCEPT
                        !.peak_allocated_ = @ + 1,
                        !.freelist_[word_idx + 1] = @ \ {bit_idx},
                        !.num_alive_ = @ + 1],
                ptr |-> slot_address(p1, slot_idx)]

allocate(p, base) ==
  LET search_limit == (p.peak_allocated_ + PoolWordBits - 1) \div PoolWordBits
      w == first_free_word(p.freelist_, 0, search_limit)
  IN IF w # 0
       THEN LET bit_idx  == ctz(p.freelist_[w])
                slot_idx == (w - 1) * PoolWordBits + bit_idx
            IN [p |-> [p EXCEPT
                        !.freelist_[w] = @ \ {bit_idx},
                        !.num_alive_ = @ + 1,
                        !.peak_allocated_ =
                            IF slot_idx >= @ THEN slot_idx + 1 ELSE @],
                ptr |-> slot_address(p, slot_idx)]
       ELSE LET slot_idx  == p.peak_allocated_
                chunk_idx == slot_idx \div ChunkSize
                p1 == IF chunk_idx >= Len(p.chunks_)
                        THEN bp_expand_storage(p, base) ELSE p
                word_idx == slot_idx \div PoolWordBits
                bit_idx  == slot_idx % PoolWordBits
            IN [p |-> [p1 EXCEPT
                        !.peak_allocated_ = @ + 1,
                        !.freelist_[word_idx + 1] = @ \ {bit_idx},
                        !.num_alive_ = @ + 1],
                ptr |-> slot_address(p1, slot_idx)]

\* allocate() reaches expand_storage
allocate_expands(p) ==
  LET search_limit == (p.peak_allocated_ + PoolWordBits - 1) \div PoolWordBits
  IN /\ first_free_word(p.freelist_, 0, search_limit) = 0
     /\ p.peak_allocated_ \div ChunkSize >= Len(p.chunks_)

\* binary search for the chunk that holds ptr; -1 is SIZE_MAX (not owned)
RECURSIVE find_chunk_index(_, _, _, _)
find_chunk_index(p, ptr, left, right) ==
  IF ~(left < right) THEN -1
  ELSE LET mid  == (left + right) \div 2
           idx  == p.sorted_chunk_indices_[mid + 1]
           base == chunk_base(p.chunks_[idx + 1])
       IN IF ptr < base THEN find_chunk_index(p, ptr, left, mid)
          ELSE IF ptr >= base + ChunkSize
                 THEN find_chunk_index(p, ptr, mid + 1, right)
          ELSE idx

deallocate(p, ptr) ==
  LET chunk_idx == find_chunk_index(p, ptr, 0, Len(p.sorted_chunk_indices_))
  IN IF chunk_idx = -1 THEN p
     ELSE LET offset_in_chunk == ptr - chunk_base(p.chunks_[chunk_idx + 1])
              slot_idx == chunk_idx * ChunkSize + offset_in_chunk
              word_idx == slot_idx \div PoolWordBits
              bit_idx  == slot_idx % PoolWordBits
          IN [p EXCEPT !.freelist_[word_idx + 1] = @ \cup {bit_idx},
                       !.num_alive_ = @ - 1]

\* sorted_chunk_indices_ rebuilt: the chunk indices ordered by address
rebuild_chunk_index(chunks) ==
  CHOOSE s \in [1..Len(chunks) -> 0..(Len(chunks) - 1)] :
    /\ \A i, j \in 1..Len(chunks) : i < j => chunks[s[i] + 1] < chunks[s[j] + 1]

bp_reset(p, shrink) ==
  LET p1 == [p EXCEPT
               !.freelist_ = [w \in 1..Len(@) |-> FullWord],
               !.num_alive_ = 0,
               !.peak_allocated_ = 0]
  IN IF shrink /\ Len(p.chunks_) > p.num_initial_chunks_
       THEN LET chunks == SubSeq(p.chunks_, 1, p.num_initial_chunks_)
            IN [p1 EXCEPT
                  !.chunks_ = chunks,
                  !.freelist_ =
                      [w \in 1..(p.num_initial_chunks_ * ChunkWords) |-> FullWord],
                  !.sorted_chunk_indices_ = rebuild_chunk_index(chunks)]
       ELSE p1

RECURSIVE construct_chunks(_, _)
construct_chunks(p, bases) ==
  IF bases = <<>> THEN p
  ELSE construct_chunks(bp_expand_storage(p, Head(bases)), Tail(bases))

\* the addresses operator new[] can give to n chunks
ChunkPlacements(n) ==
  {s \in [1..n -> ChunkBases] : \A i, j \in 1..n : i # j => s[i] # s[j]}

\* held[ptr]: how many times ptr was returned by allocate() and not yet
\* given back or destroyed by reset()
PoolInit ==
  /\ RestStart
  /\ rb = [pc |-> "idle"]
  /\ hm = [pc |-> "idle"]
  /\ fb = [pc |-> "idle"]
  /\ tq = [pc |-> "idle"]
  /\ pp = [pc |-> "idle"]
  /\ \E num_initial_chunks \in 1..MaxPoolChunks :
       \E bases \in ChunkPlacements(num_initial_chunks) :
         bp = construct_chunks(
                [chunks_ |-> <<>>, freelist_ |-> <<>>,
                 sorted_chunk_indices_ |-> <<>>, num_alive_ |-> 0,
                 peak_allocated_ |-> 0,
                 num_initial_chunks_ |-> num_initial_chunks], bases)
              @@ [pc |-> "run", held |-> [a \in PoolPointers |-> 0],
                  n |-> 0, op |-> "construct", reused |-> FALSE]

PoolUnchanged == UNCHANGED <<restVars, rb, hm, fb, tq, pp>>

pool_state(b) ==
  [chunks_ |-> b.chunks_, freelist_ |-> b.freelist_,
   sorted_chunk_indices_ |-> b.sorted_chunk_indices_,
   num_alive_ |-> b.num_alive_, peak_allocated_ |-> b.peak_allocated_,
   num_initial_chunks_ |-> b.num_initial_chunks_]

pool_with(b, p) ==
  [b EXCEPT !.chunks_ = p.chunks_, !.freelist_ = p.freelist_,
            !.sorted_chunk_indices_ = p.sorted_chunk_indices_,
            !.num_alive_ = p.num_alive_,
            !.peak_allocated_ = p.peak_allocated_]

\* allocate()
BpAllocate ==
  /\ bp.pc = "run"
  /\ bp.n < MaxPoolOps
  /\ allocate_expands(pool_state(bp)) => Len(bp.chunks_) < MaxPoolChunks
  /\ \E base \in IF Len(bp.chunks_) = MaxPoolChunks THEN {0}
                 ELSE ChunkBases \ {bp.chunks_[i] : i \in 1..Len(bp.chunks_)} :
       LET r == allocate(pool_state(bp), base)
       IN bp' = [pool_with(bp, r.p) EXCEPT
                   !.held[r.ptr] = @ + 1, !.n = @ + 1,
                   !.op = IF allocate_expands(pool_state(bp))
                            THEN "allocate_expand" ELSE "allocate",
                   !.reused = r.p.peak_allocated_ = bp.peak_allocated_]
  /\ PoolUnchanged

\* deallocate(ptr) of a pointer the caller holds
BpDeallocate ==
  /\ bp.pc = "run"
  /\ bp.n < MaxPoolOps
  /\ \E ptr \in PoolPointers :
       /\ bp.held[ptr] > 0
       /\ bp' = [pool_with(bp, deallocate(pool_state(bp), ptr)) EXCEPT
                   !.held[ptr] = @ - 1, !.n = @ + 1, !.op = "deallocate",
                   !.reused = FALSE]
  /\ PoolUnchanged

\* reset(shrink)
BpReset ==
  /\ bp.pc = "run"
  /\ bp.n < MaxPoolOps
  /\ \E shrink \in BOOLEAN :
       bp' = [pool_with(bp, bp_reset(pool_state(bp), shrink)) EXCEPT
                !.held = [a \in PoolPointers |-> 0], !.n = @ + 1,
                !.op = "reset", !.reused = FALSE]
  /\ PoolUnchanged

PoolNext == BpAllocate \/ BpDeallocate \/ BpReset

SpecPool == PoolInit /\ [][PoolNext]_vars

\* ------------------------------------------------------------------------
\* HashMap over a BitmapPool of nodes (define/MemPool.hpp).  A node lives
\* at the address the pool returned for it; 0 is nullptr.  memory[a] is
\* the content of slot a, kept after the node was given back.  Keys are
\* integers, for which std::hash returns the key itself.
\* ------------------------------------------------------------------------
\* the keys of bucket 0 and one key of the bucket next to it
HashKeys == {MIN_BUCKET_COUNT * i : i \in 0..MaxKeyLaps} \cup {1}

HashValues == 1..MaxHashValue

ExpectedSizes == 0..ChunkSize

hasher_(key) == key

RECURSIVE round_up_pow2_from(_, _)
round_up_pow2_from(n, p) == IF p >= n THEN p ELSE round_up_pow2_from(n, p + p)

round_up_pow2(n) == round_up_pow2_from(n, 1)

\* expected_size / TARGET_LOAD_FACTOR, the load factor being one half
bucket_count(expected_size) ==
  round_up_pow2(Max2(MIN_BUCKET_COUNT, expected_size + expected_size))

calc_chunk_count(capacity) ==
  Max2(1, (capacity + ChunkSize - 1) \div ChunkSize)

\* key & bucket_mask_, the mask being a power of two minus one
bucket_index(h, key) == hasher_(key) % (h.bucket_mask_ + 1)

\* the node of the chain starting at node that holds key, or 0
RECURSIVE find_node(_, _, _)
find_node(memory, node, key) ==
  IF node = 0 THEN 0
  ELSE IF memory[node].key = key THEN node
  ELSE find_node(memory, memory[node].next, key)

\* find(key): the value found, 0 for nullptr
hm_find(h, key) ==
  LET node == find_node(h.memory, h.buckets_[bucket_index(h, key)], key)
  IN IF node = 0 THEN 0 ELSE h.memory[node].value

hm_insert(h, key, value, base) ==
  LET bucket_idx == bucket_index(h, key)
      node == find_node(h.memory, h.buckets_[bucket_idx], key)
  IN IF node # 0
       THEN [h EXCEPT !.memory[node].value = value]
       ELSE LET r == allocate(h.node_pool_, base)
            IN [h EXCEPT
                  !.node_pool_ = r.p,
                  !.memory[r.ptr] = [key |-> key, value |-> value,
                                     next |-> h.buckets_[bucket_idx]],
                  !.buckets_[bucket_idx] = r.ptr,
                  !.num_entries_ = @ + 1]

\* erase from the node after prev_node on (prev_node = 0: from the head)
RECURSIVE erase_from(_, _, _, _, _)
erase_from(h, bucket_idx, prev_node, node, key) ==
  IF node = 0 THEN [h |-> h, erased |-> FALSE]
  ELSE IF h.memory[node].key = key
    THEN [h |-> [h EXCEPT
                   !.buckets_[bucket_idx] =
                       IF prev_node = 0 THEN h.memory[node].next ELSE @,
                   !.memory =
                       IF prev_node = 0 THEN @
                       ELSE [@ EXCEPT ![prev_node].next = h.memory[node].next],
                   !.node_pool_ = deallocate(@, node),
                   !.num_entries_ = @ - 1],
          erased |-> TRUE]
  ELSE erase_from(h, bucket_idx, node, h.memory[node].next, key)

RECURSIVE erase_from_UnlinksAtHead(_, _, _, _, _)
erase_from_UnlinksAtHead(h, bucket_idx, prev_node, node, key) ==
  IF node = 0 THEN [h |-> h, erased |-> FALSE]
  ELSE IF h.memory[node].key = key
    THEN [h |-> [h EXCEPT
                   !.buckets_[bucket_idx] = h.memory[node].next,
                   !.node_pool_ = deallocate(@, node),
                   !.num_entries_ = @ - 1],
          erased |-> TRUE]
  ELSE erase_from_UnlinksAtHead(h, bucket_idx, node, h.memory[node].next, key)

hm_erase_UnlinksAtHead(h, key) ==
  LET bucket_idx == bucket_index(h, key)
  IN erase_from_UnlinksAtHead(h, bucket_idx, 0, h.buckets_[bucket_idx], key)

hm_erase(h, key) ==
  LET bucket_idx == bucket_index(h, key)
  IN erase_from(h, bucket_idx, 0, h.buckets_[bucket_idx], key)

hm_clear(h) ==
  [h EXCEPT !.buckets_ = [b \in DOMAIN @ |-> 0],
            !.node_pool_ = bp_reset(@, FALSE),
            !.num_entries_ = 0]

\* the chain of a bucket as the sequence of its keys
RECURSIVE chain_keys(_, _)
chain_keys(memory, node) ==
  IF node = 0 THEN <<>>
  ELSE <<memory[node].key>> \o chain_keys(memory, memory[node].next)

\* model[k]: the value most recently inserted for k, 0 once erased
HashInit ==
  /\ RestStart
  /\ rb = [pc |-> "idle"]
  /\ bp = [pc |-> "idle"]
  /\ fb = [pc |-> "idle"]
  /\ tq = [pc |-> "idle"]
  /\ pp = [pc |-> "idle"]
  /\ \E expected_size \in ExpectedSizes :
       \E bases \in ChunkPlacements(calc_chunk_count(expected_size)) :
         hm = [pc |-> "run",
               node_pool_ |-> construct_chunks(
                 [chunks_ |-> <<>>, freelist_ |-> <<>>,
                  sorted_chunk_indices_ |-> <<>>, num_alive_ |-> 0,
                  peak_allocated_ |-> 0,
                  num_initial_chunks_ |-> calc_chunk_count(expected_size)],
                 bases),
               memory |-> [a \in PoolPointers |->
                             [key |-> 0, value |-> 0, next |-> 0]],
               buckets_ |-> [b \in 0..(bucket_count(expected_size) - 1) |-> 0],
               num_entries_ |-> 0,
               bucket_mask_ |-> bucket_count(expected_size) - 1,
               model |-> [k \in HashKeys |-> 0],
               n |-> 0, op |-> "construct", key |-> 0, done |-> FALSE]

HashUnchanged == UNCHANGED <<restVars, rb, bp, fb, tq, pp>>

\* insert(key, value)
HmInsert ==
  /\ hm.pc = "run"
  /\ hm.n < MaxHashOps
  /\ allocate_expands(hm.node_pool_) =>
       Len(hm.node_pool_.chunks_) < MaxPoolChunks
  /\ \E key \in HashKeys, value \in HashValues :
       \E base \in IF Len(hm.node_pool_.chunks_) = MaxPoolChunks THEN {0}
                   ELSE ChunkBases \ {hm.node_pool_.chunks_[i] :
                                        i \in 1..Len(hm.node_pool_.chunks_)} :
         hm' = [hm_insert(hm, key, value, base) EXCEPT
                  !.model[key] = value, !.n = @ + 1, !.op = "insert",
                  !.key = key, !.done = TRUE]
  /\ HashUnchanged

\* erase(key)
HmErase ==
  /\ hm.pc = "run"
  /\ hm.n < MaxHashOps
  /\ \E key \in HashKeys :
       LET r == hm_erase(hm, key)
       IN hm' = [r.h EXCEPT
                   !.model[key] = 0, !.n = @ + 1, !.op = "erase",
                   !.key = key, !.done = r.erased]
  /\ HashUnchanged

\* clear()
HmClear ==
  /\ hm.pc = "run"
  /\ hm.n < MaxHashOps
  /\ hm' = [hm_clear(hm) EXCEPT
              !.model = [k \in HashKeys |-> 0], !.n = @ + 1, !.op = "clear",
              !.key = 0, !.done = TRUE]
  /\ HashUnchanged

HashNext == HmInsert \/ HmErase \/ HmClear

SpecHash == HashInit /\ [][HashNext]_vars

\* ------------------------------------------------------------------------
\* TaskQueue (codec/parallel/processing_types.cpp): consumers loop on
\* pop() as encoding_worker does, a producer pushes tasks and then calls
\* finish().  cv_.wait(lock, pred) evaluates pred under the mutex and, if
\* it is false, calls wait(lock), which releases the mutex and blocks in
\* one step; a notification reaches only the threads blocked at that time.
\* ------------------------------------------------------------------------
Consumers == 1..NumConsumers

\* the predicate of cv_.wait in pop()
pop_ready(q) == q.tasks_ > 0 \/ q.finished_

InPop(k) == tq.consumer[k] \in {"check", "entering_wait", "waiting", "woken"}

TaskQueueInit ==
  /\ RestStart
  /\ rb = [pc |-> "idle"]
  /\ bp = [pc |-> "idle"]
  /\ hm = [pc |-> "idle"]
  /\ fb = [pc |-> "idle"]
  /\ pp = [pc |-> "idle"]
  /\ tq = [pc |-> "run", tasks_ |-> 0, finished_ |-> FALSE, mutex_ |-> -1,
           consumer |-> [k \in Consumers |-> "loop"],
           taken |-> [k \in Consumers |-> 0],
           pushed |-> 0, finish |-> "not_called"]

TaskQueueUnchanged == UNCHANGED <<restVars, rb, bp, hm, fb, pp>>

\* pop(): std::unique_lock lock(mutex_)
TqPopLock(k) ==
  /\ tq.pc = "run"
  /\ tq.consumer[k] \in {"loop", "woken"}
  /\ tq.mutex_ = -1
  /\ tq' = [tq EXCEPT !.mutex_ = k, !.consumer[k] = "check"]
  /\ TaskQueueUnchanged

\* pop(): the predicate is evaluated; if it holds the call returns, with
\* the front task or with false
TqPopCheck(k) ==
  /\ tq.pc = "run"
  /\ tq.consumer[k] = "check"
  /\ tq' = IF ~pop_ready(tq)
             THEN [tq EXCEPT !.consumer[k] = "entering_wait"]
           ELSE IF tq.tasks_ = 0
             THEN [tq EXCEPT !.consumer[k] = "returned_false", !.mutex_ = -1]
           ELSE [tq EXCEPT !.consumer[k] = "loop", !.mutex_ = -1,
                           !.tasks_ = @ - 1, !.taken[k] = @ + 1]
  /\ TaskQueueUnchanged

\* pop(): wait(lock) releases the mutex and blocks
TqPopWait(k) ==
  /\ tq.pc = "run"
  /\ tq.consumer[k] = "entering_wait"
  /\ tq' = [tq EXCEPT !.consumer[k] = "waiting", !.mutex_ = -1]
  /\ TaskQueueUnchanged

\* a wakeup without a notification, which wait() may but need not produce
TqSpuriousWake(k) ==
  /\ tq.pc = "run"
  /\ tq.consumer[k] = "waiting"
  /\ tq' = [tq EXCEPT !.consumer[k] = "woken"]
  /\ TaskQueueUnchanged

TqConsumerStep(k) == TqPopLock(k) \/ TqPopCheck(k) \/ TqPopWait(k)

\* push(task): under the mutex; notify_one wakes one blocked consumer
TqPush ==
  /\ tq.pc = "run"
  /\ tq.finish = "not_called"
  /\ tq.pushed < MaxTasks
  /\ tq.mutex_ = -1
  /\ LET waiting == {k \in Consumers : tq.consumer[k] = "waiting"}
     IN IF waiting = {}
          THEN tq' = [tq EXCEPT !.tasks_ = @ + 1, !.pushed = @ + 1]
          ELSE \E k \in waiting :
                 tq' = [tq EXCEPT !.tasks_ = @ + 1, !.pushed = @ + 1,
                                  !.consumer[k] = "woken"]
  /\ TaskQueueUnchanged

\* finish(): finished_.store(true), without the mutex
TqFinishStore ==
  /\ tq.pc = "run"
  /\ tq.finish = "not_called"
  /\ tq' = [tq EXCEPT !.finished_ = TRUE, !.finish = "stored"]
  /\ TaskQueueUnchanged

\* finish(): cv_.notify_all()
TqFinishNotify ==
  /\ tq.pc = "run"
  /\ tq.finish = "stored"
  /\ tq' = [tq EXCEPT
              !.finish = "returned",
              !.consumer = [k \in Consumers |->
                              IF @[k] = "waiting" THEN "woken" ELSE @[k]]]
  /\ TaskQueueUnchanged

TaskQueueNext ==
  \/ \E k \in Consumers : TqPopLock(k)
  \/ \E k \in Consumers : TqPopCheck(k)
  \/ \E k \in Consumers : TqPopWait(k)
  \/ \E k \in Consumers : TqSpuriousWake(k)
  \/ TqPush
  \/ TqFinishStore
  \/ TqFinishNotify

\* every thread that can take a step eventually takes it; a wakeup
\* without notification is never owed
SpecTaskQueue ==
  /\ TaskQueueInit
  /\ [][TaskQueueNext]_vars
  /\ \A k \in Consumers : WF_vars(TqConsumerStep(k))
  /\ WF_vars(TqFinishStore)
  /\ WF_vars(TqFinishNotify)

\* ------------------------------------------------------------------------
\* PingPongState (codec/parallel/processing_types.cpp) driven by the
\* decompression and encoding workers of codec/parallel/workers.cpp.
\* Directory 1 is temp_a, directory 2 is temp_b, 0 is the empty string.
\* A task on the queue is the directory its asset files were extracted to.
\* ------------------------------------------------------------------------
Dirs == {1, 2}

Decompressors == 1..NumDecompressors

Encoders == 1..NumEncoders

dir_free(s, d) == ~s.is_ready_[d] /\ ~s.in_use_[d]

dir_ready(s, d) == s.is_ready_[d] /\ ~s.in_use_[d]

\* get_available_decomp_dir(): temp_a if it is free, else temp_b if it
\* is free, else 0 (the caller sleeps and polls again)
get_available_decomp_dir(s) ==
  IF dir_free(s, 1) THEN 1 ELSE IF dir_free(s, 2) THEN 2 ELSE 0

\* wait_for_ready_dir(): the directory taken, 0 while the call blocks
wait_for_ready_dir(s) ==
  IF dir_ready(s, 1) THEN 1 ELSE IF dir_ready(s, 2) THEN 2 ELSE 0

finish_with_dir(s, d) ==
  [s EXCEPT !.is_ready_[d] = FALSE, !.in_use_[d] = FALSE]

signal_ready(s, d) == [s EXCEPT !.is_ready_[d] = TRUE]

PingPongInit ==
  /\ RestStart
  /\ rb = [pc |-> "idle"]
  /\ bp = [pc |-> "idle"]
  /\ hm = [pc |-> "idle"]
  /\ fb = [pc |-> "idle"]
  /\ tq = [pc |-> "idle"]
  /\ pp = [pc |-> "run",
           is_ready_ |-> [d \in Dirs |-> FALSE],
           in_use_ |-> [d \in Dirs |-> FALSE],
           tasks_ |-> <<>>,
           dw |-> [w \in Decompressors |->
                     [pc |-> "get", dir |-> 0, left |-> MaxArchives,
                      to_push |-> 0]],
           ew |-> [e \in Encoders |->
                     [pc |-> "pop", task |-> 0, current_working_dir |-> 0]]]

PingPongUnchanged == UNCHANGED <<restVars, rb, bp, hm, fb, tq>>

\* decompression_worker: get_available_decomp_dir() returns a directory
DwGetDir(w) ==
  /\ pp.pc = "run"
  /\ pp.dw[w].pc = "get"
  /\ get_available_decomp_dir(pp) # 0
  /\ pp' = [pp EXCEPT !.dw[w].pc = "handed",
                      !.dw[w].dir = get_available_decomp_dir(pp)]
  /\ PingPongUnchanged

\* decompression_worker: the directory is wiped and the archive
\* extracted into it
DwFill(w) ==
  /\ pp.pc = "run"
  /\ pp.dw[w].pc = "handed"
  /\ pp' = [pp EXCEPT !.dw[w].pc = "push", !.dw[w].to_push = ArchiveAssets]
  /\ PingPongUnchanged

\* decompression_worker: one task per asset directory is pushed
DwPush(w) ==
  /\ pp.pc = "run"
  /\ pp.dw[w].pc = "push"
  /\ pp' = IF pp.dw[w].to_push = 0
             THEN [pp EXCEPT !.dw[w].pc = "signal"]
             ELSE [pp EXCEPT !.tasks_ = Append(@, pp.dw[w].dir),
                             !.dw[w].to_push = @ - 1]
  /\ PingPongUnchanged

\* decompression_worker: signal_ready(decomp_dir), then the next archive
DwSignalReady(w) ==
  /\ pp.pc = "run"
  /\ pp.dw[w].pc = "signal"
  /\ pp' = [signal_ready(pp, pp.dw[w].dir) EXCEPT
              !.dw[w].pc = IF pp.dw[w].left = 1 THEN "done" ELSE "get",
              !.dw[w].left = @ - 1]
  /\ PingPongUnchanged

\* encoding_worker_with_multibuffer: task_queue.pop(task) returns a task
EwPop(e) ==
  /\ pp.pc = "run"
  /\ pp.ew[e].pc = "pop"
  /\ pp.tasks_ # <<>>
  /\ pp' = [pp EXCEPT !.tasks_ = Tail(@), !.ew[e].pc = "got",
                      !.ew[e].task = Head(pp.tasks_)]
  /\ PingPongUnchanged

\* first task: wait_for_ready_dir() returns the working directory
EwFirstDir(e) ==
  /\ pp.pc = "run"
  /\ pp.ew[e].pc = "got"
  /\ pp.ew[e].current_working_dir = 0
  /\ wait_for_ready_dir(pp) # 0
  /\ LET d == wait_for_ready_dir(pp)
     IN pp' = [pp EXCEPT !.in_use_[d] = TRUE,
                         !.ew[e].current_working_dir = d]
  /\ PingPongUnchanged

\* the task belongs to the working directory: it is processed
EwProcess(e) ==
  /\ pp.pc = "run"
  /\ pp.ew[e].pc = "got"
  /\ pp.ew[e].current_working_dir # 0
  /\ pp.ew[e].task = pp.ew[e].current_working_dir
  /\ pp' = [pp EXCEPT !.ew[e].pc = "pop", !.ew[e].task = 0]
  /\ PingPongUnchanged

\* the task belongs to another directory: it is pushed back and the
\* working directory is finished
EwSwitch(e) ==
  /\ pp.pc = "run"
  /\ pp.ew[e].pc = "got"
  /\ pp.ew[e].current_working_dir # 0
  /\ pp.ew[e].task # pp.ew[e].current_working_dir
  /\ pp' = [finish_with_dir(pp, pp.ew[e].current_working_dir) EXCEPT
              !.tasks_ = Append(@, pp.ew[e].task),
              !.ew[e].pc = "wait_next", !.ew[e].task = 0,
              !.ew[e].current_working_dir = 0]
  /\ PingPongUnchanged

\* wait_for_ready_dir() after a switch returns the next directory
EwNextDir(e) ==
  /\ pp.pc = "run"
  /\ pp.ew[e].pc = "wait_next"
  /\ wait_for_ready_dir(pp) # 0
  /\ LET d == wait_for_ready_dir(pp)
     IN pp' = [pp EXCEPT !.in_use_[d] = TRUE, !.ew[e].pc = "pop",
                         !.ew[e].current_working_dir = d]
  /\ PingPongUnchanged

PingPongNext ==
  \/ \E w \in Decompressors : DwGetDir(w)
  \/ \E w \in Decompressors : DwFill(w)
  \/ \E w \in Decompressors : DwPush(w)
  \/ \E w \in Decompressors : DwSignalReady(w)
  \/ \E e \in Encoders : EwPop(e)
  \/ \E e \in Encoders : EwFirstDir(e)
  \/ \E e \in Encoders : EwProcess(e)
  \/ \E e \in Encoders : EwSwitch(e)
  \/ \E e \in Encoders : EwNextDir(e)

SpecPingPong == PingPongInit /\ [][PingPongNext]_vars

\* ------------------------------------------------------------------------
\* Codec properties
\* ------------------------------------------------------------------------
\* value sizes of the schema columns used here (uint8_t, uint16_t)
SchemaValueSizes == {1, 2}

\* the run is a column of the schema: a value size of the schema, and for
\* the static bit-pack every value fits the bit width of its column
SchemaValid(r) ==
  /\ r.value_size_bytes \in SchemaValueSizes
  /\ r.algo = BITPACK_STATIC =>
       \A i \in 1..Len(r.input) :
         ~exceeds_packed(convert_to_uint64(r.input[i], r.value_size_bytes), r.bit_width)

\* C21: for every schema-valid column and every codec, decompressing the
\* compressor's output with the same num_values and value size yields the
\* column, bit for bit
C21_RoundTripIsIdentity ==
  (cdc.pc = "decompressed" /\ cdc.damage = "none" /\ SchemaValid(cdc))
    => cdc.output = cdc.input

\* a decode that was refused: an error went back to the caller and nothing
\* was written to the caller's output
Refused == bin.pc = "decoded" /\ ~bin.ok /\ bin.orders = <<>>

\* C22: input with a truncated header, an unknown algorithm index or a
\* declared count other than the one the consumer expects is rejected with
\* an error reported to the caller and no decoded output is delivered.
\* decompress returns void and reports nothing, so for a column the only
\* way to deliver nothing is to leave the output buffer as it was and not
\* to return normally; decode_orders reports through its return value.
C22_DamagedInputRejected ==
  /\ (cdc.pc = "decompressed" /\ cdc.damage # "none") => cdc.output = CRASH
  /\ (bin.pc = "decoded"
        /\ (bin.file.header_bytes < SizeofSizeT \/ bin.file.count # bin.file.expected))
       => Refused

\* C30: the algorithm index byte the auto-select encoder prepends denotes
\* the inner codec the decoder dispatches to for that value, whichever
\* candidates were tried
C30_AlgoIndexDenotesChosenCodec ==
  (cdc.pc = "compressed" /\ cdc.damage = "none" /\ cdc.algo = CUSTOM
     /\ cdc.compressed # <<>>)
    => algo_of_index(At(cdc.compressed, 0))
         = candidates(cdc.input, cdc.value_size_bytes)[At(cdc.compressed, 0) + 1].algo

\* ------------------------------------------------------------------------
\* Encoding phase properties
\* ------------------------------------------------------------------------
\* worker k is inside extract_and_encode past the lock_guard
Extracting(k) == enc.w[k].pc \in {"extract", "encode"}

\* C23: at any time at most one encoding worker is extracting from a given
\* archive, and a worker waiting for the lock of its archive is held up
\* only by a worker that is extracting from that same archive
C23_PerArchiveLock ==
  /\ \A k \in EncWorkers : \A j \in EncWorkers :
       (k # j /\ Extracting(k) /\ Extracting(j)) => enc.w[k].date_str # enc.w[j].date_str
  /\ \A k \in EncWorkers : \A j \in EncWorkers :
       (enc.w[k].pc = "lock" /\ enc.locks[enc.w[k].archive_lock] = j)
         => (Extracting(j) /\ enc.w[j].date_str = enc.w[k].date_str)

\* one worker waits at the lock of the archive the other is extracting from
C23_Witness ==
  \E k \in EncWorkers : \E j \in EncWorkers :
    /\ enc.w[k].pc = "lock"
    /\ Extracting(j)
    /\ enc.w[j].date_str = enc.w[k].date_str
    /\ enc.locks[enc.w[k].archive_lock] = j

\* every worker has left encoding_worker
EncodingPhaseEnded == \A k \in EncWorkers : enc.w[k].pc \in {"done", "dead", "absent"}

\* C24: a pair whose extraction or encoding failed has its encoded flag
\* false; the flag is set only for pairs that were extracted and encoded
\* or whose binaries existed before the phase
C24_EncodedFlagOnlyOnSuccess ==
  \A a \in EncAssetIds : \A d \in Dates :
    /\ enc.outcome[a][d] \in {FAILED, THREW} => enc.encoded[a][d] = 0
    /\ enc.encoded[a][d] # 0 => (enc.outcome[a][d] = SUCCEEDED \/ enc.existing[a][d])

\* the phase has ended with one pair failed and another one encoded
C24_Witness ==
  /\ EncodingPhaseEnded
  /\ \E a \in EncAssetIds : \E d \in Dates :
       enc.outcome[a][d] = FAILED /\ enc.encoded[a][d] = 0
  /\ \E a \in EncAssetIds : \E d \in Dates :
       enc.outcome[a][d] = SUCCEEDED /\ enc.encoded[a][d] = 1

\* C25: a failure on one pair stops no worker: when the phase has ended
\* every date of every asset has been dealt with (encoded, found encoded,
\* found without archive, or failed) and no worker has died
C25_FailureStopsNoWorker ==
  EncodingPhaseEnded =>
    /\ \A k \in EncWorkers : enc.w[k].pc \in {"done", "absent"}
    /\ \A a \in EncAssetIds : \A d \in Dates : enc.outcome[a][d] # NOT_VISITED

\* ------------------------------------------------------------------------
\* Feature store: locking and progress of the cross-sectional worker
\* ------------------------------------------------------------------------
\* every time-series worker has left its date loop
AllTsFinished == \A w \in Cores : ts_pos[w].date_idx = NumDates

\* C28: if every time-series worker finishes processing every date, then
\* for every assignment of assets to workers the cross-sectional worker
\* eventually computes every slot of every date and terminates
C28_CsWorkerTerminates == AllTsFinished ~> (cs.pc = "done")

\* the number of time indices of the date for which compute_cs_for_timeslot
\* has returned: the loop counter t of the cross-sectional worker
SlotsComputed(date) ==
  IF cs.date_idx > date THEN Capacity
  ELSE IF cs.date_idx = date THEN cs.t
  ELSE 0

\* C29: a date's tensor is marked cs_done only after the cross-sectional
\* computation has completed for every time index of the date, and the
\* tensor is not flushed (chosen by the scan, flushing, unused again) before
\* that.
C29_CsDoneOnlyAfterAllSlots ==
  /\ \A d \in DOMAIN date_to_daydata_ :
       date_to_daydata_[d].state \in {CS_DONE, FLUSHING, UNUSED} =>
         SlotsComputed(d) = Capacity
  /\ io.pc \in {"mark_flushing", "flush"} =>
       SlotsComputed(io.date_to_flush) = Capacity

\* a tensor is being flushed while the cross-sectional worker is part-way
\* through a later date whose tensor is still in use
C29_Witness ==
  /\ io.pc = "flush"
  /\ cs.date_idx > io.date_to_flush
  /\ cs.date_idx \in DOMAIN date_to_daydata_
  /\ cs.t > 0
  /\ cs.t < Capacity
  /\ date_to_daydata_[cs.date_idx].state = IN_USE

\* ------------------------------------------------------------------------
\* Engines of different instruments
\* ------------------------------------------------------------------------
\* C27: engines of different instruments are independent: between its
\* calls an engine is in the state its own rows lead to, the flush of the
\* call-auction entries at the 09:30 transition included, whatever another
\* engine instance has processed in between.
C27_EnginesIndependent ==
  (eng.pc = "run" /\ eng.call = <<>>) => lob = eng.alone

\* ------------------------------------------------------------------------
\* The lock of the feature store
\* ------------------------------------------------------------------------
\* C26: the cross-sectional worker never acquires a mutex that a
\* time-series producer also acquires (map_mutex_ is the store's only
\* mutex): its only synchronization is polling the progress counters.
C26_CsSharesNoMutexWithProducers ==
  CS_WORKER \in mx.acquired => mx.acquired \cap Cores = {}

\* ------------------------------------------------------------------------
\* Levels of the book
\* ------------------------------------------------------------------------
\* C33: after every processed event every level reachable through the
\* price index holds at least one order, and no price without a level is in
\* the visible bitmap: a level whose order_count drops to zero leaves the
\* index and the bitmap in the same event.
C33_NoEmptyLevel ==
  /\ \A p \in DOMAIN lob.price_levels_ :
       /\ lob.price_levels_[p].order_count >= 1
       /\ lob.price_levels_[p].order_count = Len(lob.price_levels_[p].orders)
       /\ lob.price_levels_[p].price = p
  /\ lob.visible_price_bitmap_ \subseteq DOMAIN lob.price_levels_

\* the book had a visible level (the cache was dirtied), the level has lost
\* its last order and is gone from the index and from the bitmap
C33_Witness ==
  /\ ~exited
  /\ nEvents >= 2
  /\ DOMAIN lob.price_levels_ = {}
  /\ lob.visible_price_bitmap_ = {}
  /\ lob.cache_dirty_
  /\ DOMAIN lob.order_lookup_ = {}

\* ------------------------------------------------------------------------
\* The I/O worker
\* ------------------------------------------------------------------------
\* the tensors that have been flushed: nothing leaves state UNUSED
FlushedDates == {d \in DOMAIN date_to_daydata_ : date_to_daydata_[d].state = UNUSED}

\* C40: the I/O worker flushes no tensor twice (each counted flush is the
\* flush of another date), and once the cross-sectional worker has marked
\* every date complete it flushes every date's tensor and leaves its loop
\* after total_dates flushes.
C40_IoFlushesEachDateOnce ==
  /\ [](io.flush_count = Cardinality(FlushedDates))
  /\ [](io.flush_count <= NumDates)
  /\ (cs.pc = "done") ~> (io.pc = "scan" /\ io.flush_count = NumDates
                           /\ FlushedDates = Dates)

\* every date marked complete, every tensor flushed, the I/O worker out of
\* its loop
C40_Witness ==
  /\ cs.pc = "done"
  /\ io.pc = "scan"
  /\ io.flush_count = NumDates
  /\ FlushedDates = Dates

\* ------------------------------------------------------------------------
\* Order of work of a time-series worker
\* ------------------------------------------------------------------------
\* C32: each sequential worker goes through the dates in ascending order,
\* one at a time, and moves to the next date only when it is through with
\* every asset assigned to it; within a date it takes its assets in order.
C32_DateFirstTraversal ==
  [][\A w \in Cores :
       /\ ts_pos'[w].date_idx \in {ts_pos[w].date_idx, ts_pos[w].date_idx + 1}
       /\ ts_pos'[w].date_idx = ts_pos[w].date_idx + 1 =>
            /\ ts_pos[w].i = Len(my_asset_ids(w))
            /\ ts_pos'[w].i = 0
       /\ ts_pos'[w].date_idx = ts_pos[w].date_idx =>
            ts_pos'[w].i \in {ts_pos[w].i, ts_pos[w].i + 1}]_vars

\* a worker with several assets is at its second asset of the second date
C32_Witness ==
  \E w \in Cores :
    /\ Len(my_asset_ids(w)) >= 2
    /\ ts_pos[w].date_idx = 1
    /\ ts_pos[w].i = 1

\* ------------------------------------------------------------------------
\* The asset queue of the encoding phase
\* ------------------------------------------------------------------------
\* C39: every asset id placed on the encoding queue is taken by exactly one
\* encoding worker: never by two, an id still on the queue by none, and when
\* every worker has left encoding_worker every id has been taken and the
\* queue is empty.
C39_EachAssetTakenOnce ==
  /\ \A a \in EncAssetIds : Cardinality(enc.taken_by[a]) <= 1
  /\ \A i \in 1..Len(enc.asset_id_queue) : enc.taken_by[enc.asset_id_queue[i]] = {}
  /\ EncodingPhaseEnded =>
       /\ enc.asset_id_queue = <<>>
       /\ \A a \in EncAssetIds : Cardinality(enc.taken_by[a]) = 1

\* ------------------------------------------------------------------------
\* Run-bar sampler
\* ------------------------------------------------------------------------
\* C31: the sampler emits a bar on a trade if and only if, after adding the
\* trade's volume, max(accum_buy, accum_sell) >= threshold_ema and the
\* number of seconds elapsed since the last emitted bar (if there is one) is
\* at least min_gap.
C31_EmitsIffThresholdAndGap ==
  rb.pc = "run" =>
    \A i \in 1..Len(rb.call) :
      LET c == rb.call[i]
      IN c.emitted <=>
           /\ c.max_side >= c.threshold_ema
           /\ \A j \in 1..Len(c.last_bar) :
                ElapsedSeconds(c.last_bar[j], <<c.trade.day, c.trade.t>>) >= rb.r.min_period

\* ------------------------------------------------------------------------
\* FastBitmap
\* ------------------------------------------------------------------------
\* C36: find_prev(idx) returns the largest index of a set bit strictly less
\* than idx, or SIZE if there is none, for every idx in 0..SIZE-1, the
\* multiples of 64 included.
C36_FindPrevIsLargestBelow ==
  fb.pc = "run" =>
    \A i \in 1..Len(fb.asked) :
      LET below == {b \in fb.words_ : b < fb.asked[i]}
      IN fb.result = IF below = {} THEN SIZE
                     ELSE CHOOSE b \in below : \A c \in below : c <= b

\* C34: allocate() never returns a slot that is currently allocated: no
\* pointer is held twice, also after chunk expansion, slot reuse and reset
C34_AllocateReturnsFreeSlot ==
  bp.pc = "run" => \A a \in PoolPointers : bp.held[a] <= 1

\* slots of two chunks are held, one of them a reused slot handed out
\* again after the pool had expanded
C34_Witness ==
  /\ bp.pc = "run"
  /\ bp.op = "allocate"
  /\ bp.reused
  /\ Len(bp.chunks_) > bp.num_initial_chunks_
  /\ \E a, b \in PoolPointers :
       /\ bp.held[a] = 1 /\ bp.held[b] = 1
       /\ a \div ChunkSize # b \div ChunkSize

\* C35: the HashMap behaves as a finite map: find(k) returns the value
\* most recently inserted for k and not erased since, and nullptr
\* otherwise, also for keys that share a bucket; erase reports whether
\* the key was in the map
C35_HashMapIsFiniteMap ==
  hm.pc = "run" =>
    /\ \A k \in HashKeys : hm_find(hm, k) = hm.model[k]
    /\ hm.num_entries_ = Cardinality({k \in HashKeys : hm.model[k] # 0})

\* a key was erased from a bucket where two other keys remain, one of
\* them carrying a value written over an earlier one
C35_Witness ==
  /\ hm.pc = "run"
  /\ hm.op = "erase"
  /\ hm.done
  /\ Len(chain_keys(hm.memory, hm.buckets_[bucket_index(hm, hm.key)])) >= 2
  /\ \E k \in HashKeys :
       /\ k # hm.key
       /\ bucket_index(hm, k) = bucket_index(hm, hm.key)
       /\ hm_find(hm, k) = MaxHashValue

\* C37: once finish() has returned, every consumer that is inside pop()
\* eventually returns from it, and the last pop() of every consumer
\* returns false: no consumer sleeps on the condition variable forever
C37_PopReturnsAfterFinish ==
  \A k \in Consumers :
    (tq.pc = "run" /\ tq.finish = "returned") ~>
      (tq.consumer[k] = "returned_false")

\* the directory d is being filled by a decompression worker other than w
FilledByOther(w, d) ==
  \E w2 \in Decompressors \ {w} :
    pp.dw[w2].dir = d /\ pp.dw[w2].pc \in {"handed", "push", "signal"}

\* a task that refers to files in d is queued or in the hands of an encoder
UnprocessedTaskIn(d) ==
  \/ \E i \in 1..Len(pp.tasks_) : pp.tasks_[i] = d
  \/ \E e \in Encoders : pp.ew[e].pc = "got" /\ pp.ew[e].task = d

\* C38: a directory handed to a decompression worker has no other owner:
\* no other decompression worker is filling it and no unprocessed
\* encoding task refers to files in it
C38_DirHasOneOwner ==
  pp.pc = "run" =>
    \A w \in Decompressors :
      pp.dw[w].pc = "handed" =>
        /\ ~FilledByOther(w, pp.dw[w].dir)
        /\ ~UnprocessedTaskIn(pp.dw[w].dir)
====
